---------------------------- MODULE Spec2Model ----------------------------
(***************************************************************************)
(* A model of the JSON Schema validator github.com/altshiftab/jsonschema.   *)
(*                                                                         *)
(* The schema IR is an arena: a sequence of schema nodes, a node being the  *)
(* sequence of its Parts, and a *Schema pointer being an index into the     *)
(* arena.  JSON values (schema documents, instances, the values of Any      *)
(* Parts) are tagged records.  The validators are operators that follow     *)
(* the Go functions statement by statement; the mutable pieces of a         *)
(* ValidationState (Notes, InstancePath, *VersionData) are threaded         *)
(* through their results.                                                   *)
(***************************************************************************)
EXTENDS Integers, Sequences, FiniteSets, TLC

VARIABLES
    pc,        \* position of the Parse -> Resolve -> Validate pipeline
    doc,       \* the JSON schema document handed to UnmarshalJSON
    arena,     \* the schema IR: arena[i] is the Parts list of node i
    root,      \* the root *Schema of the parsed document
    instance,  \* the instance handed to Validate
    result,    \* the error value returned by the last operation
    vstack,    \* call stack of the stepwise evaluator
    created,   \* greatest Depth of a ValidationState created by the call
    sortIn,    \* keyword metadata handed to printKeywordsSort
    sortOut,   \* the rank table and a Parts list sorted by Finalize
    opts,      \* the *ValidateOpts handed to ValidateWithOpts
    loads,     \* the URIs the loader hook was called with, in call order
    data,      \* the text parsed and marshalled, and what parsing it again gave
    target,    \* what DerefSchema returned: the node and the error
    builder,   \* the Builder under construction: its Parts, and whether it panicked
    gpc,       \* position of every goroutine that uses a package-level table
    mu,        \* the holder of the mutex of every package-level table
    regs,      \* the contents of the package-level tables
    loader     \* the package-level loader hook of pkg/types

vars == <<pc, doc, arena, root, instance, result, vstack, created, sortIn, sortOut,
          opts, loads, data, target, builder, gpc, mu, regs, loader>>

\* The variables of the specifications of the marshaller, the JSON pointer,
\* the Builder and the package-level tables.
others == <<data, target, builder, gpc, mu, regs>>

PinnedOthers ==
    /\ data = <<>> /\ target = <<>> /\ builder = <<>>
    /\ gpc = <<>> /\ mu = <<>> /\ regs = <<>>

-----------------------------------------------------------------------------
(* Strings *)

HasPrefix(s, p) == Len(s) >= Len(p) /\ SubSeq(s, 1, Len(p)) = p

RECURSIVE SetToSeq(_)
SetToSeq(S) == IF S = {} THEN <<>>
               ELSE LET x == CHOOSE y \in S : TRUE IN <<x>> \o SetToSeq(S \ {x})

Range(s) == {s[i] : i \in DOMAIN s}

-----------------------------------------------------------------------------
(* JSON values: what encoding/json decodes into `any`. *)

JNull    == [t |-> "null"]
JBool(b) == [t |-> "bool", b |-> b]
JNum(n)  == [t |-> "num", n |-> n]
JStr(s)  == [t |-> "str", s |-> s]
JArr(e)  == [t |-> "arr", e |-> e]
JObj(f)  == [t |-> "obj", f |-> f]

-----------------------------------------------------------------------------
(* The error model, internal/validerr. *)

NoErr == [k |-> "nil", errs |-> <<>>, f |-> <<>>]

ValidationError(msg) ==
    [k |-> "verr",
     errs |-> <<[Message |-> msg, KeywordLocation |-> "", InstanceLocation |-> ""]>>,
     f |-> <<>>]

Fatal(msg) == [k |-> "fatal", errs |-> <<>>, f |-> <<msg>>]

IsValidationError(err) == err.k \in {"verr", "verrs"}

IsFatal(err) == err.k = "fatal"

AddValidationErrorStruct(perr, ve) ==
    CASE perr.k = "nil"   -> [k |-> "verr", errs |-> <<ve>>, f |-> <<>>]
      [] perr.k = "verr"  -> [k |-> "verrs", errs |-> <<perr.errs[1], ve>>, f |-> <<>>]
      [] perr.k = "verrs" -> [perr EXCEPT !.errs = Append(@, ve)]
      [] OTHER            -> perr

\* The keywordLocation AddError composes for one ValidationError.
ComposeLocation(kl, loc) ==
    LET tail == IF kl = "" THEN ""
                ELSE IF HasPrefix(kl, "#/") THEN SubSeq(kl, 3, Len(kl))
                ELSE IF kl = "#" THEN ""
                ELSE IF HasPrefix(kl, "#") THEN SubSeq(kl, 2, Len(kl))
                ELSE kl
    IN  CASE loc = "" /\ tail = "" -> "#"
          [] loc = "" /\ tail # "" -> "#/" \o tail
          [] loc # "" /\ tail = "" -> "#/" \o loc
          [] OTHER                 -> "#/" \o loc \o "/" \o tail

Restamp(ve, loc) ==
    [Message |-> ve.Message,
     KeywordLocation |-> ComposeLocation(ve.KeywordLocation, loc),
     InstanceLocation |-> IF ve.InstanceLocation = "" THEN "#" ELSE ve.InstanceLocation]

RECURSIVE AddErrs(_, _, _)
AddErrs(perr, ves, loc) ==
    IF ves = <<>> THEN perr
    ELSE AddErrs(AddValidationErrorStruct(perr, Restamp(Head(ves), loc)), Tail(ves), loc)

AddError(perr, err, loc) ==
    CASE err.k = "nil" -> perr
      [] err.k \in {"verr", "verrs"} -> AddErrs(perr, err.errs, loc)
      [] OTHER ->
           IF perr.k \in {"verr", "verrs"} THEN err
           ELSE [k |-> "fatal", errs |-> <<>>, f |-> perr.f \o err.f]

hasAnyLocation(err) ==
    /\ err.k \in {"verr", "verrs"}
    /\ \E i \in DOMAIN err.errs :
          err.errs[i].KeywordLocation # "" \/ err.errs[i].InstanceLocation # ""

EnsureInstanceLocation(err, ptr) ==
    IF err.k \in {"verr", "verrs"}
    THEN [err EXCEPT !.errs =
            [i \in DOMAIN err.errs |->
                IF err.errs[i].InstanceLocation = "" \/ err.errs[i].InstanceLocation = "#"
                THEN [err.errs[i] EXCEPT !.InstanceLocation = ptr]
                ELSE err.errs[i]]]
    ELSE err

-----------------------------------------------------------------------------
(* Notes, pkg/notes.  A note value carries its reflect.Kind. *)

EmptyNotes == <<>>

NoteScalar(v) == [kind |-> "scalar", v |-> v]
NoteSlice(s)  == [kind |-> "slice", v |-> s]

NotesSet(n, name, val) == (name :> val) @@ n

HasNote(n, name) == name \in DOMAIN n

AppendNote(n, name, vals) ==
    NotesSet(n, name, NoteSlice((IF HasNote(n, name) THEN n[name].v ELSE <<>>) \o vals))

\* n.AddNotes(n2) for one added bag.
AddNotes1(n, n2) ==
    [k \in DOMAIN n \cup DOMAIN n2 |->
        IF k \notin DOMAIN n2 THEN n[k]
        ELSE IF k \notin DOMAIN n \/ n2[k].kind # "slice" THEN n2[k]
        ELSE NoteSlice(n[k].v \o n2[k].v)]

RECURSIVE AddNotes(_, _)
AddNotes(n, ns) == IF ns = <<>> THEN n ELSE AddNotes(AddNotes1(n, Head(ns)), Tail(ns))

NotesIsEmpty(n) == DOMAIN n = {}

-----------------------------------------------------------------------------
(* ValidationState, pkg/types/validate.go.  The field mem is the memory    *)
(* every state of one call reaches through a pointer: the dynamic anchors  *)
(* *VersionData points to, and the maps of the instance.  A Go map is a     *)
(* reference: the default value ValidateProperties stores in the instance  *)
(* is the map the `default` Part of the schema holds.  The instance is a    *)
(* tree of JSON values in which such a stored map is the value JRef(s), s   *)
(* being the schema node whose default it is, and mem.defaults[s] is what   *)
(* that map holds now.  An instance handed to a validator is the path that  *)
(* leads to it from the instance of the call.                              *)

MaxDepth == 1000

JRef(s) == [t |-> "ref", node |-> s]

\* opts == nil, and the options with ApplyDefaults set.
NoOpts == [ApplyDefaults |-> FALSE]

WithDefaults == [ApplyDefaults |-> TRUE]

NewMem(v) == [anchors |-> <<>>, inst |-> v, defaults |-> <<>>]

\* The value a map or slice entry holds, a stored default followed.
Target(mem, v) == IF v.t = "ref" THEN mem.defaults[v.node] ELSE v

RECURSIVE Walk(_, _, _)
Walk(mem, v, path) ==
    IF path = <<>> THEN Target(mem, v)
    ELSE LET d == Target(mem, v)
         IN  Walk(mem, IF d.t = "obj" THEN d.f[Head(path)] ELSE d.e[Head(path)], Tail(path))

\* The JSON value v stands for, every stored default followed.
RECURSIVE Expand(_, _)
Expand(mem, v) ==
    CASE v.t = "ref" -> Expand(mem, mem.defaults[v.node])
      [] v.t = "obj" -> JObj([k \in DOMAIN v.f |-> Expand(mem, v.f[k])])
      [] v.t = "arr" -> JArr([i \in DOMAIN v.e |-> Expand(mem, v.e[i])])
      [] OTHER -> v

\* The map or slice at path, its entries as they are stored.
Peek(mem, path) == Walk(mem, mem.inst, path)

\* The instance at path, as the validator handed it sees it.
Load(mem, path) == Expand(mem, Peek(mem, path))

\* The tree that holds the map at path, 0 for the tree of the instance and
\* s for the default of node s, and the path to the map within that tree.
RECURSIVE Home(_, _, _, _)
Home(mem, tree, rel, path) ==
    LET RECURSIVE at(_, _)
        at(v, r) == IF r = <<>> THEN v
                    ELSE at(IF v.t = "obj" THEN v.f[Head(r)] ELSE v.e[Head(r)], Tail(r))
        here == at(IF tree = 0 THEN mem.inst ELSE mem.defaults[tree], rel)
    IN  IF here.t = "ref" THEN Home(mem, here.node, <<>>, path)
        ELSE IF path = <<>> THEN [tree |-> tree, rel |-> rel]
        ELSE Home(mem, tree, Append(rel, Head(path)), Tail(path))

\* v with the entry name of the map at rel set to val.
RECURSIVE SetAt(_, _, _, _)
SetAt(v, rel, name, val) ==
    IF rel = <<>> THEN JObj((name :> val) @@ v.f)
    ELSE IF v.t = "obj"
    THEN JObj([v.f EXCEPT ![Head(rel)] = SetAt(@, Tail(rel), name, val)])
    ELSE JArr([v.e EXCEPT ![Head(rel)] = SetAt(@, Tail(rel), name, val)])

\* m[name] = val on the map m at path.
Store(mem, path, name, val) ==
    LET h == Home(mem, 0, <<>>, path)
    IN  IF h.tree = 0 THEN [mem EXCEPT !.inst = SetAt(@, h.rel, name, val)]
        ELSE [mem EXCEPT !.defaults[h.tree] = SetAt(@, h.rel, name, val)]

\* The assignment left out.
StoreNothing(mem, path, name, s, d) == mem

\* m[name] = defaultVal, defaultVal being the value d of the default Part of
\* node s: a map or a slice is stored by reference.
StoreDefault(mem, path, name, s, d) ==
    IF d.t \in {"obj", "arr"}
    THEN Store(IF s \in DOMAIN mem.defaults THEN mem
               ELSE [mem EXCEPT !.defaults = (s :> d) @@ @],
               path, name, JRef(s))
    ELSE Store(mem, path, name, d)

RootState(s, v, o) ==
    [Schema |-> s, Index |-> 0, Depth |-> 0, Notes |-> EmptyNotes,
     InstancePath |-> <<>>, Opts |-> o, mem |-> NewMem(v)]

\* Child with the depth check left out.
ChildUnbounded(vs) ==
    [err |-> NoErr, st |-> [vs EXCEPT !.Depth = vs.Depth + 1, !.Notes = EmptyNotes]]

\* Child: [err, st].
Child(vs) ==
    IF vs.Depth > MaxDepth
    THEN [err |-> Fatal("recursion while validating schema too deep"), st |-> vs]
    ELSE [err |-> NoErr,
          st  |-> [vs EXCEPT !.Depth = vs.Depth + 1, !.Notes = EmptyNotes]]

PushInstanceToken(vs, tok) == [vs EXCEPT !.InstancePath = Append(@, tok)]

PopInstanceToken(vs) ==
    IF Len(vs.InstancePath) > 0
    THEN [vs EXCEPT !.InstancePath = SubSeq(@, 1, Len(@) - 1)]
    ELSE vs

\* RFC 6901 escaping of one token, byte by byte.
RECURSIVE EscapeToken(_)
EscapeToken(t) ==
    IF t = "" THEN ""
    ELSE LET c == SubSeq(t, 1, 1)
         IN  (IF c = "~" THEN "~0" ELSE IF c = "/" THEN "~1" ELSE c)
             \o EscapeToken(SubSeq(t, 2, Len(t)))

RECURSIVE JoinTokens(_)
JoinTokens(path) ==
    IF path = <<>> THEN ""
    ELSE "/" \o EscapeToken(Head(path)) \o JoinTokens(Tail(path))

InstancePointer(vs) ==
    IF Len(vs.InstancePath) = 0 THEN "#" ELSE "#" \o JoinTokens(vs.InstancePath)

-----------------------------------------------------------------------------
(* Keyword names, in strings.Compare order.  TLA+ has no order on strings, *)
(* so the order of the names the model uses is listed.                     *)

NameOrder ==
    <<"$anchor", "$bool", "$defs", "$dynamicAnchor", "$dynamicRef", "$id", "$ref",
      "$schema", "A", "B", "S", "a", "a/b", "additionalProperties", "allOf", "anyOf", "b",
      "c", "const", "contains", "d", "default", "else", "id", "if", "items", "maxLength",
      "minContains", "minLength", "n", "name", "not", "oneOf", "p", "prefixItems",
      "properties", "q", "required",
      "s", "t", "tA", "tB", "then", "type", "unevaluatedProperties", "x-note", "x-schema">>

NamePos(name) == CHOOSE i \in DOMAIN NameOrder : NameOrder[i] = name

Compare(x, y) == IF x < y THEN -1 ELSE IF x > y THEN 1 ELSE 0

stringsCompare(a, b) == Compare(NamePos(a), NamePos(b))

-----------------------------------------------------------------------------
(* cmd/keywordgen: the generator of a vocabulary's comparison routine. *)

\* slices.SortFunc(sortedKeywords, -strings.Compare): names descending.
RECURSIVE SortDescending(_)
SortDescending(kws) ==
    IF kws = <<>> THEN <<>>
    ELSE LET hi == CHOOSE i \in DOMAIN kws :
                     \A j \in DOMAIN kws : stringsCompare(kws[i].Name, kws[j].Name) >= 0
         IN  <<kws[hi]>> \o
             SortDescending(SubSeq(kws, 1, hi - 1) \o SubSeq(kws, hi + 1, Len(kws)))

\* The position at which keyword k goes into the reversed list.
InsertAt(ranked, k) ==
    LET hits == {i \in DOMAIN ranked : ranked[i].Name \in k.After}
    IN  IF hits = {} THEN Len(ranked) + 1
        ELSE CHOOSE i \in hits : \A j \in hits : i <= j

RECURSIVE RankLoop(_, _)
RankLoop(sorted, ranked) ==
    IF sorted = <<>> THEN ranked
    ELSE LET k   == Head(sorted)
             ins == InsertAt(ranked, k)
         IN  RankLoop(Tail(sorted),
                      SubSeq(ranked, 1, ins - 1) \o <<k>> \o SubSeq(ranked, ins, Len(ranked)))

Reverse(s) == [i \in DOMAIN s |-> s[Len(s) + 1 - i]]

\* The generated comparison routine: whether a sortRank table was written
\* (some keyword has an After list) and the order of the names in it.
printKeywordsSort(keywords) ==
    LET found == \E i \in DOMAIN keywords : keywords[i].After # {}
        ranked == Reverse(RankLoop(SortDescending(keywords), <<>>))
    IN  [found |-> found,
         order |-> IF found THEN [i \in DOMAIN ranked |-> ranked[i].Name] ELSE <<>>]

\* sortRank[name]: the index in the table, 0 for a name that is not in it.
sortRank(gen, name) ==
    IF \E i \in DOMAIN gen.order : gen.order[i] = name
    THEN (CHOOSE i \in DOMAIN gen.order : gen.order[i] = name) - 1
    ELSE 0

keywordCmp(gen, a, b) ==
    IF gen.found THEN Compare(sortRank(gen, a), sortRank(gen, b))
    ELSE stringsCompare(a, b)

\* slices.SortFunc on a short slice is an insertion sort.
RECURSIVE SinkPart(_, _, _)
SinkPart(gen, parts, j) ==
    IF j > 1 /\ keywordCmp(gen, parts[j].kw, parts[j - 1].kw) < 0
    THEN SinkPart(gen, [parts EXCEPT ![j] = parts[j - 1], ![j - 1] = parts[j]], j - 1)
    ELSE parts

RECURSIVE SortParts(_, _, _)
SortParts(gen, parts, i) ==
    IF i > Len(parts) THEN parts
    ELSE SortParts(gen, SinkPart(gen, parts, i), i + 1)

Finalize(gen, parts) == SortParts(gen, parts, 2)

-----------------------------------------------------------------------------
(* The draft 2020-12 vocabulary.  Its keyword table is generated from a    *)
(* metadata file; the model lists the keywords it uses, with the argument  *)
(* type their validator takes and the ordering constraints the             *)
(* specification gives.                                                    *)

SchemaID == "https://json-schema.org/draft/2020-12/schema"

Kw(name, at, after) == [Name |-> name, ArgType |-> at, After |-> after]

Keywords ==
    <<Kw("$anchor", "String", {}),
      Kw("$defs", "MapSchema", {}),
      Kw("$dynamicAnchor", "String", {}),
      Kw("$dynamicRef", "String", {}),
      Kw("$id", "String", {}),
      Kw("$ref", "String", {}),
      Kw("additionalProperties", "Schema", {"properties"}),
      Kw("allOf", "Schemas", {}),
      Kw("anyOf", "Schemas", {}),
      Kw("const", "Any", {}),
      Kw("contains", "Schema", {}),
      Kw("default", "Any", {}),
      Kw("else", "Schema", {"if"}),
      Kw("if", "Schema", {}),
      Kw("items", "Schema", {"prefixItems"}),
      Kw("maxLength", "Int", {}),
      Kw("minContains", "Int", {"contains"}),
      Kw("minLength", "Int", {}),
      Kw("not", "Schema", {}),
      Kw("oneOf", "Schemas", {}),
      Kw("prefixItems", "Schemas", {}),
      Kw("properties", "MapSchema", {}),
      Kw("required", "Strings", {}),
      Kw("then", "Schema", {"if"}),
      Kw("type", "StringOrStrings", {}),
      Kw("unevaluatedProperties", "Schema",
         {"$dynamicRef", "$ref", "additionalProperties", "allOf", "anyOf", "else", "if",
          "not", "oneOf", "properties", "then"})>>

KeywordNames == {Keywords[i].Name : i \in DOMAIN Keywords}

LookupKw(name) == CHOOSE k \in Range(Keywords) : k.Name = name

\* The comparison routine generated for the vocabulary (Vocabulary.Cmp).
VocabularyCmp == printKeywordsSort(Keywords)

\* Vocabulary.Keywords: the keywords of a table by name.
KeywordMap(table) ==
    [name \in {table[i].Name : i \in DOMAIN table} |->
        CHOOSE k \in Range(table) : k.Name = name]

Draft202012Vocabulary ==
    [Schema |-> SchemaID, Keywords |-> KeywordMap(Keywords), Cmp |-> VocabularyCmp]

\* The 2019-09 vocabulary, whose "items" takes either a single schema or an
\* array of schemas; the model lists the keywords it uses.
Draft201909ID == "https://json-schema.org/draft/2019-09/schema"

Draft201909Keywords ==
    <<Kw("allOf", "Schemas", {}),
      Kw("items", "SchemaOrSchemas", {}),
      Kw("properties", "MapSchema", {}),
      Kw("type", "StringOrStrings", {})>>

Draft201909Vocabulary ==
    [Schema |-> Draft201909ID, Keywords |-> KeywordMap(Draft201909Keywords),
     Cmp |-> printKeywordsSort(Draft201909Keywords)]

\* The vocabulary registry after the draft packages have registered.
NilVocabulary == [Schema |-> "", Keywords |-> <<>>, Cmp |-> <<>>]

Registered == {Draft202012Vocabulary, Draft201909Vocabulary}

TrimSuffix(s, suffix) ==
    IF Len(s) >= Len(suffix) /\ SubSeq(s, Len(s) - Len(suffix) + 1, Len(s)) = suffix
    THEN SubSeq(s, 1, Len(s) - Len(suffix))
    ELSE s

LookupVocabulary(s) ==
    IF \E v \in Registered : v.Schema = TrimSuffix(s, "#")
    THEN CHOOSE v \in Registered : v.Schema = TrimSuffix(s, "#")
    ELSE NilVocabulary

DefaultVocabulary == Draft202012Vocabulary

-----------------------------------------------------------------------------
(* Parts.  A Part is its keyword (name, Generated flag, ArgType) and its   *)
(* value; a PartSchema holds a node of the arena, a PartSchemas a sequence *)
(* of nodes, a PartMapSchema a function from names to nodes.               *)

Part(name, at, val) == [kw |-> name, gen |-> FALSE, at |-> at, val |-> val]

GenPart(name, at, val) == [kw |-> name, gen |-> TRUE, at |-> at, val |-> val]

SchemaKeywordPart(version) == Part("$schema", "String", version)

BoolKeywordPart(b) == Part("$bool", "Bool", b)

\* The Part addKeywordFromJSON stores for a keyword the vocabulary lacks.
UnknownPart(keyword, val) == Part(keyword, "Any", val)

IsKnown(p) == ~p.gen /\ p.kw \in KeywordNames

HasPart(parts, name, gen) == \E i \in DOMAIN parts : parts[i].kw = name /\ parts[i].gen = gen

\* s.LookupKeyword(keyword) on the Parts of s: [ok, val].
LookupKeyword(parts, keyword) ==
    IF HasPart(parts, keyword, FALSE)
    THEN [ok |-> TRUE,
          val |-> parts[CHOOSE i \in DOMAIN parts :
                          /\ parts[i].kw = keyword /\ ~parts[i].gen
                          /\ \A j \in 1..(i - 1) : ~(parts[j].kw = keyword /\ ~parts[j].gen)].val]
    ELSE [ok |-> FALSE, val |-> JNull]

FirstPart(parts, name, gen) ==
    parts[CHOOSE i \in DOMAIN parts :
            /\ parts[i].kw = name /\ parts[i].gen = gen
            /\ \A j \in 1..(i - 1) : ~(parts[j].kw = name /\ parts[j].gen = gen)]

-----------------------------------------------------------------------------
(* The JSON-to-IR builder.  Every operator returns [ar, err]: the arena    *)
(* after the call and the error.  A Go map is ranged over in an            *)
(* unspecified order; the model takes its keys in one fixed order.         *)

Keys(f) == SetToSeq(DOMAIN f)

AddPart(ar, s, p) == [ar EXCEPT ![s] = Append(@, p)]

IsStrings(val) == val.t = "arr" /\ \A i \in DOMAIN val.e : val.e[i].t = "str"

ToStrings(val) == [i \in DOMAIN val.e |-> val.e[i].s]

RECURSIVE buildFromJSON(_, _, _, _)
RECURSIVE addKeywordFromJSON(_, _, _, _, _)
RECURSIVE addKeywords(_, _, _, _, _)
RECURSIVE buildSchemas(_, _, _, _, _)
RECURSIVE buildMapSchema(_, _, _, _, _, _)

\* s.buildFromJSON(vocabulary, v, vocabulary) on the node s.
buildFromJSON(vocabulary, ar, s, v) ==
    LET done(r) == IF r.err # NoErr THEN r
                   ELSE [ar |-> [r.ar EXCEPT ![s] = Finalize(vocabulary.Cmp, @)], err |-> NoErr]
    IN
    CASE v.t = "bool" -> [ar |-> AddPart(ar, s, BoolKeywordPart(v.b)), err |-> NoErr]
      [] v.t = "obj"  -> done(addKeywords(vocabulary, ar, s, Keys(v.f), v.f))
      [] OTHER -> [ar |-> ar, err |-> Fatal("jsonschema: unexpected type while JSON decoding schema")]

addKeywords(vocabulary, ar, s, keys, f) ==
    IF keys = <<>> THEN [ar |-> ar, err |-> NoErr]
    ELSE LET next(r) == IF r.err # NoErr THEN r ELSE addKeywords(vocabulary, r.ar, s, Tail(keys), f)
         IN  next(addKeywordFromJSON(vocabulary, ar, s, Head(keys), f[Head(keys)]))

\* The schemas of an array: [ar, err, ids].
buildSchemas(vocabulary, ar, vals, i, ids) ==
    IF i > Len(vals) THEN [ar |-> ar, err |-> NoErr, ids |-> ids]
    ELSE LET next(n, r) == IF r.err # NoErr THEN [ar |-> r.ar, err |-> r.err, ids |-> ids]
                           ELSE buildSchemas(vocabulary, r.ar, vals, i + 1, Append(ids, n))
         IN  next(Len(ar) + 1, buildFromJSON(vocabulary, Append(ar, <<>>), Len(ar) + 1, vals[i]))

\* The schemas of an object: [ar, err, nm].
buildMapSchema(vocabulary, ar, keys, i, jm, nm) ==
    IF i > Len(keys) THEN [ar |-> ar, err |-> NoErr, nm |-> nm]
    ELSE LET next(n, r) == IF r.err # NoErr THEN [ar |-> r.ar, err |-> r.err, nm |-> nm]
                           ELSE buildMapSchema(vocabulary, r.ar, keys, i + 1, jm, (keys[i] :> n) @@ nm)
         IN  next(Len(ar) + 1, buildFromJSON(vocabulary, Append(ar, <<>>), Len(ar) + 1, jm[keys[i]]))

addKeywordFromJSON(vocabulary, ar, s, keyword, val) ==
    LET bad(want) == [ar |-> ar, err |-> Fatal("jsonschema: argument is not " \o want)]
        ok(a, kt, pv) == [ar |-> AddPart(a, s, Part(keyword, kt, pv)), err |-> NoErr]
        schema(n, r) == IF r.err # NoErr THEN r ELSE ok(r.ar, "Schema", n)
        schemas(r) == IF r.err # NoErr THEN [ar |-> r.ar, err |-> r.err]
                      ELSE ok(r.ar, "Schemas", r.ids)
        mapSchema(r) == IF r.err # NoErr THEN [ar |-> r.ar, err |-> r.err]
                        ELSE ok(r.ar, "MapSchema", r.nm)
        oneSchema(n, r) == IF r.err # NoErr THEN r
                           ELSE ok(r.ar, "SchemaOrSchemas", [Schema |-> n, Schemas |-> <<>>])
        manySchemas(r) == IF r.err # NoErr THEN [ar |-> r.ar, err |-> r.err]
                          ELSE ok(r.ar, "SchemaOrSchemas", [Schema |-> 0, Schemas |-> r.ids])
        typed(kt) ==
            CASE kt = "Bool" ->
                   IF val.t # "bool" THEN bad("bool") ELSE ok(ar, kt, val.b)
              [] kt = "String" ->
                   IF val.t # "str" THEN bad("string") ELSE ok(ar, kt, val.s)
              [] kt = "Strings" ->
                   IF ~IsStrings(val) THEN bad("array of string") ELSE ok(ar, kt, ToStrings(val))
              [] kt = "StringOrStrings" ->
                   IF val.t = "str"
                   THEN ok(ar, kt, [String |-> val.s, Strings |-> <<>>, isList |-> FALSE])
                   ELSE IF ~IsStrings(val) THEN bad("string or array of string")
                   ELSE ok(ar, kt, [String |-> "", Strings |-> ToStrings(val), isList |-> TRUE])
              [] kt = "Int" ->
                   IF val.t # "num" THEN bad("integer") ELSE ok(ar, kt, val.n)
              [] kt = "Schema" ->
                   schema(Len(ar) + 1, buildFromJSON(vocabulary, Append(ar, <<>>), Len(ar) + 1, val))
              [] kt = "Schemas" ->
                   IF val.t # "arr" THEN bad("array")
                   ELSE schemas(buildSchemas(vocabulary, ar, val.e, 1, <<>>))
              [] kt = "MapSchema" ->
                   IF val.t # "obj" THEN bad("object")
                   ELSE mapSchema(buildMapSchema(vocabulary, ar, Keys(val.f), 1, val.f, <<>>))
              [] kt = "SchemaOrSchemas" ->
                   IF val.t = "arr" THEN manySchemas(buildSchemas(vocabulary, ar, val.e, 1, <<>>))
                   ELSE oneSchema(Len(ar) + 1,
                                  buildFromJSON(vocabulary, Append(ar, <<>>), Len(ar) + 1, val))
              [] OTHER -> ok(ar, kt, val)
    IN
    IF Len(keyword) = 0 THEN [ar |-> ar, err |-> Fatal("jsonschema: empty JSON keyword")]
    ELSE IF keyword \notin DOMAIN vocabulary.Keywords
    THEN [ar |-> AddPart(ar, s, UnknownPart(keyword, val)), err |-> NoErr]
    ELSE typed(vocabulary.Keywords[keyword].ArgType)

\* SchemaFromJSON("", nil, v): buildTopFromJSON on a fresh root node of the
\* arena, with draft 2020-12 registered as the default vocabulary:
\* [ar, root, err, vocabulary].
buildTopFromJSON(ar, v) ==
    LET has == v.t = "obj" /\ "$schema" \in DOMAIN v.f
        version == IF has /\ v.f["$schema"].t = "str" THEN v.f["$schema"].s ELSE ""
        rest == IF has THEN JObj([k \in DOMAIN v.f \ {"$schema"} |-> v.f[k]]) ELSE v
        n == Len(ar) + 1
        done(vocabulary, r) ==
            [ar |-> r.ar, root |-> n, err |-> r.err, vocabulary |-> vocabulary]
        build(vocabulary) ==
            IF vocabulary.Schema = ""
            THEN [ar |-> ar, root |-> 0, vocabulary |-> NilVocabulary,
                  err |-> Fatal("jsonschema: JSON schema version not recognized")]
            ELSE done(vocabulary,
                      buildFromJSON(vocabulary,
                                    Append(ar, <<SchemaKeywordPart(IF version = ""
                                                                   THEN vocabulary.Schema
                                                                   ELSE version)>>),
                                    n, rest))
    IN  IF has /\ v.f["$schema"].t # "str"
        THEN [ar |-> ar, root |-> 0, vocabulary |-> NilVocabulary,
              err |-> Fatal("jsonschema: $schema does not have a string value")]
        ELSE IF version = "" THEN build(DefaultVocabulary)
        ELSE build(LookupVocabulary(version))

-----------------------------------------------------------------------------
(* Keyword validators without subschemas.  A validator returns [err, st]:  *)
(* the error and the state it was handed, with the notes it wrote.         *)

Ok(st) == [err |-> NoErr, st |-> st]

Er(e, st) == [err |-> e, st |-> st]

validateBool(arg, inst, st) ==
    IF arg THEN Ok(st) ELSE Er(ValidationError("false schema never matches"), st)

TypeNames == {"null", "boolean", "object", "array", "number", "string", "integer"}

\* The match closure of ValidateType; the numbers of the model are integers.
TypeMatch(typ, inst) ==
    CASE typ = "null"    -> inst.t = "null"
      [] typ = "boolean" -> inst.t = "bool"
      [] typ = "object"  -> inst.t = "obj"
      [] typ = "array"   -> inst.t = "arr"
      [] typ = "number"  -> inst.t = "num"
      [] typ = "string"  -> inst.t = "str"
      [] typ = "integer" -> inst.t = "num"
      [] OTHER           -> FALSE

RECURSIVE TypeLoop(_, _, _)
TypeLoop(strs, i, inst) ==
    IF i > Len(strs) THEN ValidationError("instance has wrong type, want one of several")
    ELSE IF strs[i] \notin TypeNames THEN Fatal("unrecognized type " \o strs[i])
    ELSE IF TypeMatch(strs[i], inst) THEN NoErr
    ELSE TypeLoop(strs, i + 1, inst)

ValidateType(arg, inst, st) ==
    IF ~arg.isList
    THEN IF arg.String \notin TypeNames THEN Er(Fatal("unrecognized type " \o arg.String), st)
         ELSE IF TypeMatch(arg.String, inst) THEN Ok(st)
         ELSE Er(ValidationError("instance has wrong type, want " \o arg.String), st)
    ELSE Er(TypeLoop(arg.Strings, 1, inst), st)

ValidateConst(arg, inst, st) ==
    IF inst # arg THEN Er(ValidationError("const failed"), st) ELSE Ok(st)

ValidateMaxLength(arg, inst, st) ==
    IF arg < 0 THEN Er(Fatal("maxLength argument must be non-negative"), st)
    ELSE IF inst.t = "str" /\ Len(inst.s) > arg
    THEN Er(ValidationError("value too long for maxLength"), st)
    ELSE Ok(st)

ValidateMinLength(arg, inst, st) ==
    IF arg < 0 THEN Er(Fatal("maxLength argument must be non-negative"), st)
    ELSE IF inst.t = "str" /\ Len(inst.s) < arg
    THEN Er(ValidationError("value too short for minLength"), st)
    ELSE Ok(st)

ValidateMinContains(arg, inst, st) ==
    IF HasNote(st.Notes, "contains") /\ Len(st.Notes["contains"].v) < arg
    THEN Er(ValidationError("array length is less than minContains requirement"), st)
    ELSE Ok(st)

RECURSIVE RequiredLoop(_, _, _, _)
RequiredLoop(arg, i, inst, topErr) ==
    IF i > Len(arg) THEN topErr
    ELSE RequiredLoop(arg, i + 1, inst,
            IF arg[i] \notin DOMAIN inst.f
            THEN AddError(topErr,
                          ValidationError("missing required field \"" \o arg[i] \o "\""),
                          "required/" \o arg[i])
            ELSE topErr)

\* ValidateRequired returning at the first name the instance lacks.
ValidateRequiredFirst(arg, inst, st) ==
    LET missing == {i \in DOMAIN arg : arg[i] \notin DOMAIN inst.f}
        first == CHOOSE i \in missing : \A j \in missing : i <= j
    IN  IF inst.t # "obj" \/ missing = {} THEN Ok(st)
        ELSE Er(AddError(NoErr,
                         ValidationError("missing required field \"" \o arg[first] \o "\""),
                         "required/" \o arg[first]), st)

ValidateRequired(arg, inst, st) ==
    IF inst.t # "obj" THEN Ok(st) ELSE Er(RequiredLoop(arg, 1, inst, NoErr), st)

\* validateRecordDynamicAnchor letting the anchor recorded last win.
validateRecordDynamicAnchorLast(arg, inst, st) ==
    Ok([st EXCEPT !.mem.anchors = (arg.anchor :> arg.schema) @@ @])

\* *state.VersionData is mem.anchors: the dynamic anchors in scope, by name.
validateRecordDynamicAnchor(arg, inst, st) ==
    IF arg.anchor \in DOMAIN st.mem.anchors THEN Ok(st)
    ELSE Ok([st EXCEPT !.mem.anchors = (arg.anchor :> arg.schema) @@ @])

validateClearDynamicAnchor(arg, inst, st) ==
    IF arg.anchor \in DOMAIN st.mem.anchors /\ st.mem.anchors[arg.anchor] = arg.schema
    THEN Ok([st EXCEPT !.mem.anchors = [n \in DOMAIN @ \ {arg.anchor} |-> @[n]]])
    ELSE Ok(st)

\* url.Parse(ref).Fragment: what follows the first "#".
RECURSIVE Fragment(_)
Fragment(ref) ==
    IF ref = "" THEN ""
    ELSE IF SubSeq(ref, 1, 1) = "#" THEN SubSeq(ref, 2, Len(ref))
    ELSE Fragment(SubSeq(ref, 2, Len(ref)))

\* resolveDynamicRef: the node bound to the fragment, 0 for none.
resolveDynamicRef(arg, st) ==
    LET frag == Fragment(arg)
    IN  IF frag = "" \/ HasPrefix(frag, "/") THEN 0
        ELSE IF frag \in DOMAIN st.mem.anchors THEN st.mem.anchors[frag] ELSE 0

-----------------------------------------------------------------------------
(* Schema evaluation, pkg/types/validate.go, and the keywords that         *)
(* evaluate subschemas.  ar is the arena, s a node of it.                  *)

RECURSIVE ValidateSubSchema(_, _, _, _)
RECURSIVE ValidateInPlaceSchema(_, _, _, _)
RECURSIVE PartsLoop(_, _, _, _, _, _)
RECURSIVE KeywordValidate(_, _, _, _)
RECURSIVE validateRef(_, _, _, _)
RECURSIVE validateDynamicRef(_, _, _, _)
RECURSIVE ValidateAllOf(_, _, _, _)
RECURSIVE ValidateAnyOf(_, _, _, _)
RECURSIVE ValidateOneOf(_, _, _, _)
RECURSIVE ValidateNot(_, _, _, _)
RECURSIVE ValidateIf(_, _, _, _)
RECURSIVE ValidateThen(_, _, _, _)
RECURSIVE ValidateElse(_, _, _, _)
RECURSIVE ValidateContains(_, _, _, _)
RECURSIVE ValidateProperties(_, _, _, _)
RECURSIVE AllOfLoop(_, _, _, _, _, _, _)
RECURSIVE AnyOfLoop(_, _, _, _, _, _, _, _)
RECURSIVE OneOfLoop(_, _, _, _, _, _, _, _)
RECURSIVE ContainsLoop(_, _, _, _, _, _, _)
RECURSIVE PropertiesLoop(_, _, _, _, _, _)
RECURSIVE PrefixItemsLoop(_, _, _, _, _, _)
RECURSIVE ItemsLoop(_, _, _, _, _, _)
RECURSIVE AdditionalLoop(_, _, _, _, _, _, _)
RECURSIVE ValidateUnevaluatedProperties(_, _, _, _)
RECURSIVE UnevaluatedLoop(_, _, _, _, _, _, _)

\* topErr after the loop over s.Parts has seen the error err of the Part p.
AddPartError(topErr, p, err) ==
    IF err = NoErr THEN topErr
    ELSE IF hasAnyLocation(err) THEN AddError(topErr, err, "")
    ELSE AddError(topErr, err, p.kw)

\* The loop over s.Parts: [err, st] with st the subState.
PartsLoop(ar, s, i, inst, subState, topErr) ==
    IF i > Len(ar[s]) THEN [err |-> topErr, st |-> subState]
    ELSE LET next(r) ==
                 IF r.err = NoErr THEN PartsLoop(ar, s, i + 1, inst, r.st, topErr)
                 ELSE PartsLoop(ar, s, i + 1, inst, r.st,
                                AddPartError(topErr, ar[s][i], r.err))
         IN  next(KeywordValidate(ar, ar[s][i], inst, [subState EXCEPT !.Index = i]))

\* What ValidateInPlaceSchema returns once the loop has ended with r, its
\* topErr and subState: the notes of subState are merged into state.
InPlaceResult(state, r) ==
    Er(r.err, [state EXCEPT !.mem = r.st.mem, !.Notes = AddNotes(@, <<r.st.Notes>>)])

ValidateInPlaceSchema(ar, s, inst, state) ==
    LET c == Child(state)
    IN  IF c.err # NoErr THEN Er(c.err, state)
        ELSE InPlaceResult(state,
                 PartsLoop(ar, s, 1, inst, [c.st EXCEPT !.Schema = s], NoErr))

ValidateSubSchema(ar, s, inst, state) ==
    LET c == Child(state)
        done(r) == Er(r.err, [state EXCEPT !.mem = r.st.mem])
    IN  IF c.err # NoErr THEN Er(c.err, state)
        ELSE done(PartsLoop(ar, s, 1, inst, [c.st EXCEPT !.Schema = s], NoErr))

validateRef(ar, arg, inst, state) ==
    LET parts == ar[state.Schema]
    IN  IF HasPart(parts, "$$resolvedRef", TRUE)
        THEN ValidateInPlaceSchema(ar, FirstPart(parts, "$$resolvedRef", TRUE).val, inst, state)
        ELSE Er(Fatal("reference unresolved"), state)

\* validateDynamicRef asking the dynamic scope before the Part the
\* resolver added.
validateDynamicRefScopeFirst(ar, arg, inst, state) ==
    LET parts == ar[state.Schema]
        dyn == resolveDynamicRef(arg, state)
        s == IF dyn # 0 THEN dyn
             ELSE IF HasPart(parts, "$$resolvedDynamicRef", TRUE)
             THEN FirstPart(parts, "$$resolvedDynamicRef", TRUE).val
             ELSE IF HasPart(parts, "$$detachedDynamicRef", TRUE)
             THEN FirstPart(parts, "$$detachedDynamicRef", TRUE).val
             ELSE 0
    IN  IF s = 0 THEN Er(Fatal("dynamic reference unresolved"), state)
        ELSE ValidateInPlaceSchema(ar, s, inst, state)

validateDynamicRef(ar, arg, inst, state) ==
    LET parts == ar[state.Schema]
        dyn == resolveDynamicRef(arg, state)
        s == IF HasPart(parts, "$$resolvedDynamicRef", TRUE)
             THEN FirstPart(parts, "$$resolvedDynamicRef", TRUE).val
             ELSE IF dyn # 0 THEN dyn
             ELSE IF HasPart(parts, "$$detachedDynamicRef", TRUE)
             THEN FirstPart(parts, "$$detachedDynamicRef", TRUE).val
             ELSE 0
    IN  IF s = 0 THEN Er(Fatal("dynamic reference unresolved"), state)
        ELSE ValidateInPlaceSchema(ar, s, inst, state)

\* The loop of ValidateAllOf: [err, keep, mem].
AllOfLoop(ar, arg, i, inst, subState, keepNotes, topErr) ==
    IF i > Len(arg) THEN [err |-> topErr, keep |-> keepNotes, mem |-> subState.mem]
    ELSE LET next(r) ==
                 IF r.err # NoErr
                 THEN AllOfLoop(ar, arg, i + 1, inst, [subState EXCEPT !.mem = r.st.mem],
                          keepNotes, AddError(topErr, r.err, "allOf/" \o ToString(i - 1)))
                 ELSE AllOfLoop(ar, arg, i + 1, inst, [subState EXCEPT !.mem = r.st.mem],
                          IF ~NotesIsEmpty(r.st.Notes)
                          THEN Append(keepNotes, r.st.Notes) ELSE keepNotes,
                          topErr)
         IN  next(ValidateInPlaceSchema(ar, arg[i], inst, subState))

\* ValidateAllOf without the notes of its branches.
ValidateAllOfDropNotes(ar, arg, inst, state) ==
    LET c == Child(state)
        done(r) == Er(r.err, [state EXCEPT !.mem = r.mem])
    IN  IF c.err # NoErr THEN Er(c.err, state)
        ELSE done(AllOfLoop(ar, arg, 1, inst, c.st, <<>>, NoErr))

ValidateAllOf(ar, arg, inst, state) ==
    LET c == Child(state)
        done(r) == Er(r.err, [state EXCEPT !.mem = r.mem,
                                           !.Notes = IF r.err = NoErr THEN AddNotes(@, r.keep)
                                                     ELSE @])
    IN  IF c.err # NoErr THEN Er(c.err, state)
        ELSE done(AllOfLoop(ar, arg, 1, inst, c.st, <<>>, NoErr))

\* The loop of ValidateAnyOf: [err, keep, ok, mem].
AnyOfLoop(ar, arg, i, inst, subState, keepNotes, ok, topErr) ==
    IF i > Len(arg)
    THEN [err |-> topErr, keep |-> keepNotes, ok |-> ok, mem |-> subState.mem]
    ELSE LET next(r) ==
                 IF r.err # NoErr
                 THEN AnyOfLoop(ar, arg, i + 1, inst, [subState EXCEPT !.mem = r.st.mem],
                          keepNotes, ok,
                          IF ~IsValidationError(r.err)
                          THEN AddError(topErr, r.err, "") ELSE topErr)
                 ELSE AnyOfLoop(ar, arg, i + 1, inst, [subState EXCEPT !.mem = r.st.mem],
                          IF ~NotesIsEmpty(r.st.Notes)
                          THEN Append(keepNotes, r.st.Notes) ELSE keepNotes,
                          TRUE, topErr)
         IN  next(ValidateInPlaceSchema(ar, arg[i], inst, subState))

ValidateAnyOf(ar, arg, inst, state) ==
    LET c == Child(state)
        done(r) ==
            IF ~r.ok
            THEN Er(AddValidationErrorStruct(r.err,
                       ValidationError("no anyof schema matches").errs[1]),
                    [state EXCEPT !.mem = r.mem])
            ELSE Er(r.err, [state EXCEPT !.mem = r.mem, !.Notes = AddNotes(@, r.keep)])
    IN  IF c.err # NoErr THEN Er(c.err, state)
        ELSE done(AnyOfLoop(ar, arg, 1, inst, c.st, <<>>, FALSE, NoErr))

\* The loop of ValidateOneOf: [err, keep, c, mem].
OneOfLoop(ar, arg, i, inst, subState, keepNotes, c, topErr) ==
    IF i > Len(arg)
    THEN [err |-> topErr, keep |-> keepNotes, c |-> c, mem |-> subState.mem]
    ELSE LET next(r) ==
                 IF r.err # NoErr
                 THEN OneOfLoop(ar, arg, i + 1, inst, [subState EXCEPT !.mem = r.st.mem],
                          keepNotes, c,
                          IF ~IsValidationError(r.err)
                          THEN AddError(topErr, r.err, "") ELSE topErr)
                 ELSE OneOfLoop(ar, arg, i + 1, inst, [subState EXCEPT !.mem = r.st.mem],
                          r.st.Notes, c + 1, topErr)
         IN  next(ValidateInPlaceSchema(ar, arg[i], inst, subState))

ValidateOneOf(ar, arg, inst, state) ==
    LET c == Child(state)
        done(r) ==
            IF r.c # 1
            THEN Er(AddValidationErrorStruct(r.err,
                       ValidationError(IF r.c = 0 THEN "no match for oneof schema"
                                       ELSE "several matches for oneof schema").errs[1]),
                    [state EXCEPT !.mem = r.mem])
            ELSE Er(r.err, [state EXCEPT !.mem = r.mem, !.Notes = AddNotes(@, <<r.keep>>)])
    IN  IF c.err # NoErr THEN Er(c.err, state)
        ELSE done(OneOfLoop(ar, arg, 1, inst, c.st, EmptyNotes, 0, NoErr))

\* What ValidateNot makes of the result r of its subschema.
NotResult(state, r) ==
    IF r.err # NoErr
    THEN IF ~IsValidationError(r.err) THEN Er(r.err, [state EXCEPT !.mem = r.st.mem])
         ELSE Ok([state EXCEPT !.mem = r.st.mem, !.Notes = AddNotes(@, <<r.st.Notes>>)])
    ELSE Er(ValidationError("not schema matched"), [state EXCEPT !.mem = r.st.mem])

ValidateNot(ar, arg, inst, state) ==
    LET c == Child(state)
    IN  IF c.err # NoErr THEN Er(c.err, state)
        ELSE NotResult(state, ValidateInPlaceSchema(ar, arg, inst, c.st))

ValidateIf(ar, arg, inst, state) ==
    LET c == Child(state)
        done(r) ==
            IF r.err # NoErr
            THEN IF ~IsValidationError(r.err) THEN Er(r.err, [state EXCEPT !.mem = r.st.mem])
                 ELSE Ok([state EXCEPT !.mem = r.st.mem,
                                       !.Notes = NotesSet(@, "if", NoteScalar(FALSE))])
            ELSE Ok([state EXCEPT !.mem = r.st.mem,
                                  !.Notes = NotesSet(AddNotes(@, <<r.st.Notes>>), "if",
                                                     NoteScalar(TRUE))])
    IN  IF c.err # NoErr THEN Er(c.err, state)
        ELSE done(ValidateInPlaceSchema(ar, arg, inst, c.st))

ValidateThen(ar, arg, inst, state) ==
    LET c == Child(state)
        done(r) == Er(r.err, [state EXCEPT !.mem = r.st.mem,
                                !.Notes = IF r.err = NoErr THEN AddNotes(@, <<r.st.Notes>>)
                                          ELSE @])
    IN  IF ~HasNote(state.Notes, "if") \/ ~state.Notes["if"].v THEN Ok(state)
        ELSE IF c.err # NoErr THEN Er(c.err, state)
        ELSE done(ValidateInPlaceSchema(ar, arg, inst, c.st))

\* ValidateElse evaluates the subschema on state, not on the child it made.
ValidateElse(ar, arg, inst, state) ==
    LET c == Child(state)
        done(r) == Er(r.err, [r.st EXCEPT
                                !.Notes = IF r.err = NoErr THEN AddNotes(@, <<c.st.Notes>>)
                                          ELSE @])
    IN  IF ~HasNote(state.Notes, "if") \/ state.Notes["if"].v THEN Ok(state)
        ELSE IF c.err # NoErr THEN Er(c.err, state)
        ELSE done(ValidateInPlaceSchema(ar, arg, inst, state))

\* The minContains scan of ValidateContains over the Parts after state.Index.
hasMinContainsZero(ar, state) ==
    \E i \in (state.Index + 1)..Len(ar[state.Schema]) :
        LET part == ar[state.Schema][i]
        IN  part.kw = "minContains" /\ part.at = "Int" /\ part.val = 0

\* The loop of ValidateContains over the n elements: [matched, mem].
ContainsLoop(ar, arg, i, n, inst, state, matched) ==
    IF i > n THEN [matched |-> matched, mem |-> state.mem]
    ELSE LET next(r) ==
                 IF r.err = NoErr
                 THEN ContainsLoop(ar, arg, i + 1, n, inst, r.st, Append(matched, i - 1))
                 ELSE ContainsLoop(ar, arg, i + 1, n, inst, r.st, matched)
         IN  next(ValidateSubSchema(ar, arg, Append(inst, i), state))

ValidateContains(ar, arg, inst, state) ==
    LET done(r) ==
            IF ~(hasMinContainsZero(ar, state) \/ r.matched # <<>>)
            THEN Er(ValidationError("no array element matches contains schema"),
                    [state EXCEPT !.mem = r.mem])
            ELSE Ok([state EXCEPT !.mem = r.mem,
                                  !.Notes = AppendNote(@, "contains", r.matched)])
        over(a) == IF a.t # "arr" THEN Ok(state)
                   ELSE done(ContainsLoop(ar, arg, 1, Len(a.e), inst, state, <<>>))
    IN  over(Peek(state.mem, inst))

\* The loop of ValidatePrefixItems over the schemas of arg and the n
\* elements of the array: the first error ends it.  (The replacement of a
\* zero element by the default of its schema under ApplyDefaults is left
\* out: no document validated with ApplyDefaults has prefixItems.)
PrefixItemsLoop(ar, arg, i, n, inst, state) ==
    IF i > Len(arg) \/ i > n THEN Ok(state)
    ELSE LET next(r) == IF r.err # NoErr THEN r
                        ELSE PrefixItemsLoop(ar, arg, i + 1, n, inst, r.st)
         IN  next(ValidateSubSchema(ar, arg[i], Append(inst, i), state))

ValidatePrefixItems(ar, arg, inst, state) ==
    LET note == [idx |-> Len(arg), schema |-> state.Schema]
        noted == [state EXCEPT !.Notes = AppendNote(@, "prefixItems", <<note>>)]
        over(a) == IF a.t # "arr" THEN Ok(noted)
                   ELSE PrefixItemsLoop(ar, arg, 1, Len(a.e), inst, noted)
    IN  over(Peek(state.mem, inst))

\* The index ValidateItems starts at: the idx of the first prefixItems note
\* of this node, 0 when there is none.
ItemsStart(state) ==
    IF /\ HasNote(state.Notes, "prefixItems")
       /\ \E i \in DOMAIN state.Notes["prefixItems"].v :
             state.Notes["prefixItems"].v[i].schema = state.Schema
    THEN LET pins == state.Notes["prefixItems"].v
             first == CHOOSE i \in DOMAIN pins :
                         /\ pins[i].schema = state.Schema
                         /\ \A j \in 1..(i - 1) : pins[j].schema # state.Schema
         IN  pins[first].idx
    ELSE 0

\* The loop of ValidateItems over the elements idx.. of the array (i is
\* idx + 1): the first error ends it.
ItemsLoop(ar, arg, i, n, inst, state) ==
    IF i > n THEN Ok(state)
    ELSE LET next(r) == IF r.err # NoErr THEN r
                        ELSE ItemsLoop(ar, arg, i + 1, n, inst, r.st)
         IN  next(ValidateSubSchema(ar, arg, Append(inst, i), state))

ValidateItems(ar, arg, inst, state) ==
    LET noted(n) == IF ItemsStart(state) < n
                    THEN [state EXCEPT !.Notes = NotesSet(@, "items", NoteScalar(TRUE))]
                    ELSE state
        over(a) == IF a.t # "arr" THEN Ok(state)
                   ELSE ItemsLoop(ar, arg, ItemsStart(state) + 1, Len(a.e), inst,
                                  noted(Len(a.e)))
    IN  over(Peek(state.mem, inst))

\* The loop of ValidateProperties over the names of arg: [err, st].  A name
\* the instance lacks gets the default of its subschema when ApplyDefaults
\* is set and the name is not required.
PropertiesLoop(ar, arg, names, inst, state, topErr) ==
    IF names = <<>> THEN [err |-> topErr, st |-> state]
    ELSE LET name == Head(names)
             required == LookupKeyword(ar[state.Schema], "required")
             default == LookupKeyword(ar[arg[name]], "default")
             hasDefault == /\ state.Opts.ApplyDefaults
                           /\ ~(required.ok /\ name \in Range(required.val))
                           /\ default.ok
             note == [field |-> name, schema |-> state.Schema]
             absent(m) ==
                 IF ~hasDefault THEN state
                 ELSE [state EXCEPT
                         !.mem = IF m.t = "obj"
                                 THEN StoreDefault(@, inst, name, arg[name], default.val)
                                 ELSE @,
                         !.Notes = AppendNote(@, "properties", <<note>>)]
             popped(st) ==
                 [PopInstanceToken(st) EXCEPT !.Notes = AppendNote(@, "properties", <<note>>)]
             next(r) ==
                 IF r.err # NoErr
                 THEN PropertiesLoop(ar, arg, Tail(names), inst, popped(r.st),
                          AddError(topErr,
                                   EnsureInstanceLocation(r.err, InstancePointer(r.st)),
                                   "properties/" \o name))
                 ELSE PropertiesLoop(ar, arg, Tail(names), inst, popped(r.st), topErr)
             field(m) ==
                 IF ~(m.t = "obj" /\ name \in DOMAIN m.f)
                 THEN PropertiesLoop(ar, arg, Tail(names), inst, absent(m), topErr)
                 ELSE next(ValidateSubSchema(ar, arg[name], Append(inst, name),
                                             PushInstanceToken(state, name)))
         IN  field(Peek(state.mem, inst))

ValidateProperties(ar, arg, inst, state) ==
    PropertiesLoop(ar, arg, Keys(arg), inst, state, NoErr)

\* found of a ValidateAdditionalProperties that takes the notes of every
\* node.
AdditionalFoundAnyNode(state) ==
    UNION {{state.Notes[key].v[i].field : i \in DOMAIN state.Notes[key].v} :
              key \in DOMAIN state.Notes \cap {"properties", "patternProperties"}}

\* found of ValidateAdditionalProperties: the names in the notes that
\* properties and patternProperties of this very node have left.
AdditionalFound(state) ==
    UNION {{state.Notes[key].v[i].field :
               i \in {j \in DOMAIN state.Notes[key].v :
                         state.Notes[key].v[j].schema = state.Schema}} :
              key \in DOMAIN state.Notes \cap {"properties", "patternProperties"}}

\* The loop of ValidateAdditionalProperties over the names of the
\* instance: [err, st].
AdditionalLoop(ar, arg, names, found, inst, state, topErr) ==
    IF names = <<>> THEN [err |-> topErr, st |-> state]
    ELSE LET name == Head(names)
             note == [field |-> name, schema |-> state.Schema]
             noted(st) ==
                 [st EXCEPT !.Notes = AppendNote(@, "additionalProperties", <<note>>)]
             next(r) ==
                 IF r.err # NoErr
                 THEN AdditionalLoop(ar, arg, Tail(names), found, inst, noted(r.st),
                          AddError(topErr, r.err, "additionalProperties/" \o name))
                 ELSE AdditionalLoop(ar, arg, Tail(names), found, inst, noted(r.st), topErr)
         IN  IF name \in found
             THEN AdditionalLoop(ar, arg, Tail(names), found, inst, state, topErr)
             ELSE next(ValidateSubSchema(ar, arg, Append(inst, name), state))

ValidateAdditionalProperties(ar, arg, inst, state) ==
    LET over(m) == IF m.t # "obj" THEN Ok(state)
                   ELSE AdditionalLoop(ar, arg, Keys(m.f), AdditionalFound(state),
                                       inst, state, NoErr)
    IN  over(Peek(state.mem, inst))

\* The names the notes of the keywords that evaluate properties hold.
FoundNames(n) ==
    UNION {{n[key].v[i].field : i \in DOMAIN n[key].v} :
              key \in DOMAIN n \cap {"properties", "patternProperties",
                                     "additionalProperties", "unevaluatedProperties"}}

\* The loop of ValidateUnevaluatedProperties over the names of the
\* instance: [err, st].
UnevaluatedLoop(ar, arg, names, found, inst, state, topErr) ==
    IF names = <<>> THEN [err |-> topErr, st |-> state]
    ELSE LET name == Head(names)
             note == [field |-> name, schema |-> state.Schema]
             noted(st) ==
                 [st EXCEPT !.Notes = AppendNote(@, "unevaluatedProperties", <<note>>)]
             next(r) ==
                 IF r.err # NoErr
                 THEN UnevaluatedLoop(ar, arg, Tail(names), found, inst, noted(r.st),
                          AddError(topErr, r.err, "unevaluatedProperties/" \o name))
                 ELSE UnevaluatedLoop(ar, arg, Tail(names), found, inst, noted(r.st), topErr)
         IN  IF name \in found
             THEN UnevaluatedLoop(ar, arg, Tail(names), found, inst, state, topErr)
             ELSE next(ValidateSubSchema(ar, arg, Append(inst, name), state))

ValidateUnevaluatedProperties(ar, arg, inst, state) ==
    LET over(m) == IF m.t # "obj" THEN Ok(state)
                   ELSE UnevaluatedLoop(ar, arg, Keys(m.f), FoundNames(state.Notes),
                                        inst, state, NoErr)
    IN  over(Peek(state.mem, inst))

\* ValidateDefault: the keyword supplies a value and always validates.
ValidateDefault(arg, inst, st) == Ok(st)

\* p.Keyword.Validate(p.Value, instance, state) for the keywords that look
\* at the instance v and at no subschema.
ValidateValue(p, v, state) ==
    CASE p.kw = "type"        -> ValidateType(p.val, v, state)
      [] p.kw = "const"       -> ValidateConst(p.val, v, state)
      [] p.kw = "maxLength"   -> ValidateMaxLength(p.val, v, state)
      [] p.kw = "minLength"   -> ValidateMinLength(p.val, v, state)
      [] p.kw = "minContains" -> ValidateMinContains(p.val, v, state)
      [] p.kw = "required"    -> ValidateRequired(p.val, v, state)
      [] p.kw = "default"     -> ValidateDefault(p.val, v, state)
      [] OTHER                -> Ok(state)

\* p.Keyword.Validate(p.Value, instance, state), the instance being the one
\* at the path inst.
KeywordValidate(ar, p, inst, state) ==
    IF p.gen
    THEN CASE p.kw = "$$recordDynamicAnchorKeyword" ->
                validateRecordDynamicAnchor(p.val, inst, state)
           [] p.kw = "$$clearDynamicAnchorKeyword" ->
                validateClearDynamicAnchor(p.val, inst, state)
           [] OTHER -> Ok(state)
    ELSE IF p.kw = "$bool" THEN validateBool(p.val, inst, state)
    ELSE IF ~IsKnown(p) THEN Ok(state)
    ELSE CASE p.kw = "$ref"        -> validateRef(ar, p.val, inst, state)
           [] p.kw = "$dynamicRef" -> validateDynamicRef(ar, p.val, inst, state)
           [] p.kw = "allOf"       -> ValidateAllOf(ar, p.val, inst, state)
           [] p.kw = "anyOf"       -> ValidateAnyOf(ar, p.val, inst, state)
           [] p.kw = "oneOf"       -> ValidateOneOf(ar, p.val, inst, state)
           [] p.kw = "not"         -> ValidateNot(ar, p.val, inst, state)
           [] p.kw = "if"          -> ValidateIf(ar, p.val, inst, state)
           [] p.kw = "then"        -> ValidateThen(ar, p.val, inst, state)
           [] p.kw = "else"        -> ValidateElse(ar, p.val, inst, state)
           [] p.kw = "contains"    -> ValidateContains(ar, p.val, inst, state)
           [] p.kw = "prefixItems" -> ValidatePrefixItems(ar, p.val, inst, state)
           [] p.kw = "items"       -> ValidateItems(ar, p.val, inst, state)
           [] p.kw = "properties"  -> ValidateProperties(ar, p.val, inst, state)
           [] p.kw = "additionalProperties" ->
                ValidateAdditionalProperties(ar, p.val, inst, state)
           [] p.kw = "unevaluatedProperties" ->
                ValidateUnevaluatedProperties(ar, p.val, inst, state)
           [] OTHER                -> ValidateValue(p, Load(state.mem, inst), state)

\* s.ValidateWithOpts(instance, opts): [err, st], the error returned and the
\* root state, with the memory the call leaves.
ValidateCall(ar, s, v, o) ==
    ValidateSubSchema(ar, s, <<>>, RootState(s, v, o))

ValidateWithOpts(ar, s, v, o) == ValidateCall(ar, s, v, o).err

\* The instance the caller holds after the call.
InstanceAfter(st) == Expand(st.mem, st.mem.inst)

\* The Parts of node s after the call: the default Part holds what the
\* map it points to holds.
PartsAfter(ar, st, s) ==
    [i \in DOMAIN ar[s] |->
        IF s \in DOMAIN st.mem.defaults /\ ar[s][i].kw = "default" /\ ~ar[s][i].gen
           /\ \A j \in 1..(i - 1) : ~(ar[s][j].kw = "default" /\ ~ar[s][j].gen)
        THEN [ar[s][i] EXCEPT !.val = Expand(st.mem, st.mem.defaults[s])]
        ELSE ar[s][i]]

\* The schema IR after the call.
ArenaAfter(ar, st) == [s \in DOMAIN ar |-> PartsAfter(ar, st, s)]

-----------------------------------------------------------------------------
(* URIs.  A URI is the text before the first "#" and the fragment after    *)
(* it; a nil *url.URL is the URI with both empty.                          *)

RECURSIVE BeforeHash(_)
BeforeHash(ref) ==
    IF ref = "" \/ SubSeq(ref, 1, 1) = "#" THEN ""
    ELSE SubSeq(ref, 1, 1) \o BeforeHash(SubSeq(ref, 2, Len(ref)))

urlParse(ref) == [base |-> BeforeHash(ref), frag |-> Fragment(ref)]

urlString(u) == IF u.frag = "" THEN u.base ELSE u.base \o "#" \o u.frag

IsAbs(u) == HasPrefix(u.base, "http:")

\* The text of a path up to and including its last "/".
RECURSIVE DirOf(_)
DirOf(path) ==
    IF path = "" \/ SubSeq(path, Len(path), Len(path)) = "/" THEN path
    ELSE DirOf(SubSeq(path, 1, Len(path) - 1))

\* base.ResolveReference(ref) for the references the model uses: absolute
\* ones, fragment-only ones and a relative path without dot segments.
ResolveReference(base, ref) ==
    IF IsAbs(ref) THEN ref
    ELSE IF ref.base = "" THEN [base |-> base.base, frag |-> ref.frag]
    ELSE [base |-> DirOf(base.base) \o ref.base, frag |-> ref.frag]

-----------------------------------------------------------------------------
(* JSON pointers into the IR, pkg/jsonpointer. *)

\* strings.Split(pointer, "/")
RECURSIVE SplitSlash(_, _)
SplitSlash(s, cur) ==
    IF s = "" THEN <<cur>>
    ELSE IF SubSeq(s, 1, 1) = "/" THEN <<cur>> \o SplitSlash(SubSeq(s, 2, Len(s)), "")
    ELSE SplitSlash(SubSeq(s, 2, Len(s)), cur \o SubSeq(s, 1, 1))

\* decodeToken: "~1" to "/", then "~0" to "~".
RECURSIVE ReplaceAll(_, _, _)
ReplaceAll(s, old, new) ==
    IF Len(s) < Len(old) THEN s
    ELSE IF SubSeq(s, 1, Len(old)) = old
    THEN new \o ReplaceAll(SubSeq(s, Len(old) + 1, Len(s)), old, new)
    ELSE SubSeq(s, 1, 1) \o ReplaceAll(SubSeq(s, 2, Len(s)), old, new)

decodeToken(tok) == ReplaceAll(ReplaceAll(tok, "~1", "/"), "~0", "~")

\* strconv.Atoi for the indices the model uses: -1 stands for an error.
Atoi(tok) ==
    IF \E n \in 0..9 : ToString(n) = tok THEN CHOOSE n \in 0..9 : ToString(n) = tok ELSE -1

\* The first non-generated Part of the node named tok, 0 for none.
PartNamed(parts, tok) ==
    IF \E i \in DOMAIN parts : ~parts[i].gen /\ parts[i].kw = tok
    THEN CHOOSE i \in DOMAIN parts :
            /\ ~parts[i].gen /\ parts[i].kw = tok
            /\ \A j \in 1..(i - 1) : ~(~parts[j].gen /\ parts[j].kw = tok)
    ELSE 0

\* The resolveLoop of DerefSchema on the value of an Any Part: [v, i, err].
RECURSIVE resolveLoop(_, _, _)
resolveLoop(pv, toks, i) ==
    CASE pv.t \in {"bool", "obj"} -> [v |-> pv, i |-> i, err |-> NoErr]
      [] pv.t = "arr" ->
           IF i + 1 > Len(toks)
           THEN [v |-> pv, i |-> i, err |-> Fatal("expected array index")]
           ELSE LET idx == Atoi(decodeToken(toks[i + 1]))
                IN  IF idx < 0 THEN [v |-> pv, i |-> i, err |-> Fatal("expected array index")]
                    ELSE IF idx >= Len(pv.e)
                    THEN [v |-> pv, i |-> i, err |-> Fatal("array index out of range")]
                    ELSE resolveLoop(pv.e[idx + 1], toks, i + 1)
      [] OTHER -> [v |-> pv, i |-> i, err |-> Fatal("unexpected type")]

\* DerefSchema from token i on: [ar, s, err].  A schema found in the value of
\* an Any Part is built by SchemaFromJSON as a new root node of the arena.
RECURSIVE DerefLoop(_, _, _, _)
DerefLoop(ar, s, toks, i) ==
    IF i > Len(toks) THEN [ar |-> ar, s |-> s, err |-> NoErr]
    ELSE
    LET fail(msg) == [ar |-> ar, s |-> 0, err |-> Fatal(msg)]
        built(r, b) ==
            IF r.err # NoErr THEN fail("unexpected value")
            ELSE IF b.err # NoErr THEN fail("failed to resolve unrecognized schema")
            ELSE DerefLoop(b.ar, b.root, toks, r.i + 1)
        any(part, r) == built(r, buildTopFromJSON(ar, r.v))
        at(pi, part) ==
            IF pi = 0 THEN DerefLoop(ar, s, toks, i + 1)
            ELSE
            CASE part.at = "Schema" -> DerefLoop(ar, part.val, toks, i + 1)
              [] part.at = "Schemas" ->
                   IF i + 1 > Len(toks) THEN fail("expected array index")
                   ELSE LET idx == Atoi(decodeToken(toks[i + 1]))
                        IN  IF idx < 0 THEN fail("expected array index")
                            ELSE IF idx >= Len(part.val) THEN fail("array index out of range")
                            ELSE DerefLoop(ar, part.val[idx + 1], toks, i + 2)
              [] part.at = "MapSchema" ->
                   IF i + 1 > Len(toks) THEN fail("expected map key")
                   ELSE IF decodeToken(toks[i + 1]) \notin DOMAIN part.val
                   THEN fail("map key not present")
                   ELSE DerefLoop(ar, part.val[decodeToken(toks[i + 1])], toks, i + 2)
              [] part.at = "Any" -> any(part, resolveLoop(part.val, toks, i))
              [] OTHER -> fail("unexpected part type")
        named(pi) == at(pi, ar[s][pi])
    IN  named(PartNamed(ar[s], decodeToken(toks[i])))

DerefSchema(ar, from, pointer) ==
    DerefLoop(ar, from,
              SplitSlash(IF HasPrefix(pointer, "/") THEN SubSeq(pointer, 2, Len(pointer))
                         ELSE pointer, ""), 1)

-----------------------------------------------------------------------------
(* The resolver, pkg/draft202012/builder.go.  The resolveState is          *)
(* [ar, schemas, uris, anchors, cache, Loader, loads, err]; every operator *)
(* returns it.  Loader is ropts.Loader, 0 for nil, and loads lists the     *)
(* URIs it was called with.                                                *)

NilURI == [base |-> "", frag |-> ""]

NewResolveState(ar, ld) ==
    [ar |-> ar, schemas |-> <<>>, uris |-> <<>>, anchors |-> <<>>,
     cache |-> <<>>, Loader |-> ld, loads |-> <<>>, err |-> NoErr]

\* Cache.Load and Cache.Store of the resolver-scoped cache, the schema ID
\* being the one of the draft: 0 for a path that is not cached.
CacheLoad(cache, path) == IF path \in DOMAIN cache THEN cache[path] ELSE 0

\* Cache.Store that puts s in the place of a schema already cached.
CacheStoreReplace(cache, path, s) == (path :> s) @@ cache

CacheStore(cache, path, s) == IF path \in DOMAIN cache THEN cache ELSE (path :> s) @@ cache

\* The documents a loader finds at the URIs it knows: a schema that refers
\* to itself, two schemas that refer to each other, and a schema with an
\* anchor.
RemoteDocs ==
    [u \in {"http://h/self", "http://h/m1", "http://h/m2", "http://h/an"} |->
        CASE u = "http://h/self" ->
               JObj(("$defs" :> JObj("a" :> JObj("type" :> JStr("string"))))
                    @@ ("$ref" :> JStr("#/$defs/a")))
          [] u = "http://h/m1" ->
               JObj(("$defs" :> JObj("s" :> JObj("type" :> JStr("string"))))
                    @@ ("properties" :>
                           JObj("p" :> JObj("$ref" :> JStr("http://h/m2#/$defs/t")))))
          [] u = "http://h/m2" ->
               JObj("$defs" :> JObj("t" :> JObj("$ref" :> JStr("http://h/m1#/$defs/s"))))
          [] u = "http://h/an" ->
               JObj(("$anchor" :> JStr("S")) @@ ("type" :> JStr("string")))]

\* The keys of a map in strings.Compare order.
RECURSIVE SortedKeys(_)
SortedKeys(S) ==
    IF S = {} THEN <<>>
    ELSE LET lo == CHOOSE k \in S : \A m \in S : stringsCompare(k, m) <= 0
         IN  <<lo>> \o SortedKeys(S \ {lo})

\* s.Children(): the immediate subschemas, in iteration order.
RECURSIVE ChildrenFrom(_, _)
ChildrenFrom(parts, i) ==
    IF i > Len(parts) THEN <<>>
    ELSE LET p == parts[i]
         IN  (CASE p.gen -> <<>>
                [] ~p.gen /\ p.at = "Schema" -> <<p.val>>
                [] ~p.gen /\ p.at = "Schemas" -> p.val
                [] ~p.gen /\ p.at = "MapSchema" ->
                     LET ks == SortedKeys(DOMAIN p.val) IN [j \in DOMAIN ks |-> p.val[ks[j]]]
                [] OTHER -> <<>>)
             \o ChildrenFrom(parts, i + 1)

Children(ar, s) == ChildrenFrom(ar[s], 1)

resolveID(rs, s, value, uri) ==
    LET u == urlParse(value)
        newURI == IF IsAbs(u) \/ uri = NilURI THEN u ELSE ResolveReference(uri, u)
    IN  IF u.frag # ""
        THEN [rs |-> [rs EXCEPT !.err = Fatal("$id contains non-empty fragment")], uri |-> uri]
        ELSE [rs |-> [rs EXCEPT !.uris = (urlString(newURI) :> s) @@ @], uri |-> newURI]

resolveAnchor(rs, s, dynamic, value, uri) ==
    LET anchorStr == urlString([base |-> uri.base, frag |-> value])
    IN  IF anchorStr \in DOMAIN rs.anchors
        THEN [rs EXCEPT !.err = Fatal("duplicate anchor " \o anchorStr)]
        ELSE [rs EXCEPT !.anchors = (anchorStr :> [schema |-> s, dynamic |-> dynamic]) @@ @]

\* The loop of resolveIDs over the Parts: [rs, base, uri, dynamicAnchor].
RECURSIVE IDsLoop(_, _, _, _, _, _, _)
IDsLoop(rs, s, parts, i, base, uri, dynamicAnchor) ==
    IF i > Len(parts) \/ rs.err # NoErr
    THEN [rs |-> rs, base |-> base, uri |-> uri, dynamicAnchor |-> dynamicAnchor]
    ELSE LET p == parts[i]
         IN  CASE p.kw = "$id" ->
                    LET r == resolveID(rs, s, p.val, uri)
                    IN  IDsLoop(r.rs, s, parts, i + 1, s, r.uri, dynamicAnchor)
               [] p.kw = "$anchor" ->
                    IDsLoop(resolveAnchor(rs, s, FALSE, p.val, uri), s, parts, i + 1,
                            base, uri, dynamicAnchor)
               [] p.kw = "$dynamicAnchor" ->
                    IF dynamicAnchor # ""
                    THEN [rs |-> [rs EXCEPT !.err = Fatal("more than one $dynamicAnchor")],
                          base |-> base, uri |-> uri, dynamicAnchor |-> dynamicAnchor]
                    ELSE IDsLoop(resolveAnchor(rs, s, TRUE, p.val, uri), s, parts, i + 1,
                                 base, uri, p.val)
               [] p.kw \in {"$ref", "$dynamicRef"} ->
                    IDsLoop([rs EXCEPT !.schemas = (s :> uri) @@ @], s, parts, i + 1,
                            base, uri, dynamicAnchor)
               [] OTHER -> IDsLoop(rs, s, parts, i + 1, base, uri, dynamicAnchor)

\* Both Parts of a dynamic anchor appended to the Parts of the base schema.
WithDynamicAnchorPartsAppended(parts, anchor, s) ==
    LET val == [anchor |-> anchor, schema |-> s]
    IN  parts \o <<GenPart("$$recordDynamicAnchorKeyword", "String", val),
                   GenPart("$$clearDynamicAnchorKeyword", "String", val)>>

\* The Parts of the base schema with the Parts that set and clear the
\* dynamic anchor during validation put around them.
WithDynamicAnchorParts(parts, anchor, s) ==
    LET val == [anchor |-> anchor, schema |-> s]
    IN  <<GenPart("$$recordDynamicAnchorKeyword", "String", val)>> \o parts
        \o <<GenPart("$$clearDynamicAnchorKeyword", "String", val)>>

RECURSIVE resolveIDs(_, _, _, _)
RECURSIVE resolveIDsChildren(_, _, _, _, _)

resolveIDs(rs, s, base, uri) ==
    LET kids(l, rs1) == resolveIDsChildren(rs1, Children(rs1.ar, s), 1, l.base, l.uri)
        after(l) ==
            IF l.rs.err # NoErr THEN l.rs
            ELSE kids(l, IF l.dynamicAnchor # ""
                            /\ ~HasPart(l.rs.ar[l.base], "$$recordDynamicAnchorKeyword", TRUE)
                         THEN [l.rs EXCEPT !.ar[l.base] =
                                  WithDynamicAnchorParts(@, l.dynamicAnchor, s)]
                         ELSE l.rs)
    IN  after(IDsLoop(rs, s, rs.ar[s], 1, base, uri, ""))

resolveIDsChildren(rs, kids, i, base, uri) ==
    IF i > Len(kids) \/ rs.err # NoErr THEN rs
    ELSE resolveIDsChildren(resolveIDs(rs, kids[i], base, uri), kids, i + 1, base, uri)

RECURSIVE resolveRefs(_, _, _)
RECURSIVE resolveRefsChildren(_, _, _, _)

\* The value of the loader hook once SetLoader has installed Loader.
RemoteLoader == 1

\* The loader hook the model installs: SchemaFromJSON on the document found
\* at the URI, an error for a URI that has none: [ar, root, err].
Loader(ar, noFragStr) ==
    IF noFragStr \in DOMAIN RemoteDocs THEN buildTopFromJSON(ar, RemoteDocs[noFragStr])
    ELSE [ar |-> ar, root |-> 0, err |-> Fatal("not found")]

\* resolveRefSchema(uri, schema, state): both passes over schema, in the
\* state of the resolver that runs.
resolveRefSchema(rs, uri, s, rt) ==
    LET refs(rs1) == IF rs1.err # NoErr THEN rs1 ELSE resolveRefs(rs1, s, rt)
    IN  refs(resolveIDs(rs, s, s, uri))

\* resolveURI with the cache keyed by key: [rs, s, err].  No URI of the
\* model names a meta-schema, so checkMetaSchema finds none.
resolveURIKeyed(rs, refURI, rt, key) ==
    LET noFragStr == refURI.base
        fail(rs1, msg) == [rs |-> rs1, s |-> 0, err |-> Fatal(msg)]
        resolved(s, rs1) ==
            IF rs1.err # NoErr
            THEN [rs |-> [rs1 EXCEPT !.err = NoErr], s |-> 0,
                  err |-> Fatal("resolving schema at URI failed")]
            ELSE [rs |-> rs1, s |-> s, err |-> NoErr]
        loaded(l, rs1) ==
            IF l.err # NoErr THEN fail(rs1, "loading of URI failed")
            ELSE IF l.root = 0 THEN fail(rs1, "loading of URI returned no schema and no error")
            ELSE resolved(l.root,
                     resolveRefSchema([rs1 EXCEPT !.ar = l.ar,
                                                  !.cache = CacheStore(@, key, l.root)],
                                      [base |-> noFragStr, frag |-> ""], l.root, rt))
    IN  IF noFragStr = "" THEN [rs |-> rs, s |-> rt, err |-> NoErr]
        ELSE IF noFragStr \in DOMAIN rs.uris
        THEN [rs |-> rs, s |-> rs.uris[noFragStr], err |-> NoErr]
        ELSE IF ~IsAbs(refURI) THEN fail(rs, "could not resolve ref")
        ELSE IF rs.Loader = 0 THEN fail(rs, "remote loading of URI not permitted")
        ELSE IF CacheLoad(rs.cache, key) # 0
        THEN [rs |-> rs, s |-> CacheLoad(rs.cache, key), err |-> NoErr]
        ELSE loaded(Loader(rs.ar, noFragStr), [rs EXCEPT !.loads = Append(@, noFragStr)])

\* resolveURI with the cache keyed by the URI with its fragment.
resolveURIFragmentKey(rs, refURI, rt) == resolveURIKeyed(rs, refURI, rt, urlString(refURI))

\* resolveURI: the schema for a URI, [rs, s, err].
resolveURI(rs, refURI, rt) == resolveURIKeyed(rs, refURI, rt, refURI.base)

\* The addRef closure of resolveRef.
addRef(rs, s, dynamic, refSchema, detached) ==
    LET resolvedKey == IF detached THEN "$$detachedDynamicRef"
                       ELSE IF dynamic THEN "$$resolvedDynamicRef"
                       ELSE "$$resolvedRef"
    IN  [rs EXCEPT !.ar[s] = Append(@, GenPart(resolvedKey, "Schema", refSchema))]

resolveRef(rs, s, dynamic, ref, rt) ==
    LET sd == rs.schemas[s]
        deref(rs1, d) ==
            IF d.err # NoErr THEN [rs1 EXCEPT !.err = Fatal("could not resolve JSON pointer")]
            ELSE addRef([rs1 EXCEPT !.ar = d.ar], s, dynamic, d.s, FALSE)
        anchored(rs1, refURI, ad) ==
            addRef(rs1, s, dynamic, ad.schema,
                   dynamic /\ ~(refURI.frag = "" \/ HasPrefix(refURI.frag, "/")) /\ ad.dynamic)
        found(refURI, u) ==
            IF u.err # NoErr THEN [u.rs EXCEPT !.err = u.err]
            ELSE IF urlString(refURI) \in DOMAIN u.rs.anchors
            THEN anchored(u.rs, refURI, u.rs.anchors[urlString(refURI)])
            ELSE IF refURI.frag = "" THEN addRef(u.rs, s, dynamic, u.s, FALSE)
            ELSE IF ~HasPrefix(refURI.frag, "/")
            THEN [u.rs EXCEPT !.err = Fatal("could not find fragment")]
            ELSE deref(u.rs, DerefSchema(u.rs.ar, u.s, refURI.frag))
        resolve(refURI, refStr) ==
            IF refStr \in DOMAIN rs.anchors THEN anchored(rs, refURI, rs.anchors[refStr])
            ELSE found(refURI, resolveURI(rs, refURI, rt))
        with(refURI) == resolve(refURI, urlString(refURI))
    IN  with(IF sd # NilURI THEN ResolveReference(sd, urlParse(ref)) ELSE urlParse(ref))

\* The loop of resolveRefs over the Parts the node had when the loop began.
RECURSIVE RefsLoop(_, _, _, _, _, _, _)
RefsLoop(rs, s, parts, i, sawRef, sawDynamicRef, rt) ==
    IF i > Len(parts) \/ rs.err # NoErr THEN rs
    ELSE LET p == parts[i]
             ref(dynamic) == RefsLoop(resolveRef(rs, s, dynamic, p.val, rt), s, parts, i + 1,
                                      sawRef \/ ~dynamic, sawDynamicRef \/ dynamic, rt)
         IN  CASE p.kw = "$ref" /\ sawRef ->
                    [rs EXCEPT !.err = Fatal("more than one $ref")]
               [] p.kw = "$dynamicRef" /\ sawDynamicRef ->
                    [rs EXCEPT !.err = Fatal("more than one $dynamicRef")]
               [] p.kw \in {"$ref", "$dynamicRef"} -> ref(p.kw = "$dynamicRef")
               [] OTHER -> RefsLoop(rs, s, parts, i + 1, sawRef, sawDynamicRef, rt)

resolveRefs(rs, s, rt) ==
    LET kids(rs1) == IF rs1.err # NoErr THEN rs1
                     ELSE resolveRefsChildren(rs1, Children(rs1.ar, s), 1, rt)
    IN  kids(RefsLoop(rs, s, rs.ar[s], 1, FALSE, FALSE, rt))

resolveRefsChildren(rs, kids, i, rt) ==
    IF i > Len(kids) \/ rs.err # NoErr THEN rs
    ELSE resolveRefsChildren(resolveRefs(rs, kids[i], rt), kids, i + 1, rt)

\* resolveSchema with ropts.URI nil and ropts.Loader ld.
resolveSchema(ar, s, ld) == resolveRefSchema(NewResolveState(ar, ld), NilURI, s, s)

\* Vocabulary.Resolve of the 2019-09 vocabulary on a schema that has no $id,
\* $anchor, $ref or $recursiveRef: there is nothing to resolve.
Draft201909Resolve(ar, s, ld) == NewResolveState(ar, ld)

\* s.UnmarshalJSON(data) when the package-level loader is ld: build, then
\* Resolve: [ar, root, err, loads].
UnmarshalWith(v, ld) ==
    LET resolved(b, rs) ==
            [ar |-> rs.ar, root |-> b.root, err |-> rs.err, loads |-> rs.loads]
        built(b) == IF b.err # NoErr
                    THEN [ar |-> b.ar, root |-> b.root, err |-> b.err, loads |-> <<>>]
                    ELSE IF b.vocabulary.Schema = SchemaID
                    THEN resolved(b, resolveSchema(b.ar, b.root, ld))
                    ELSE resolved(b, Draft201909Resolve(b.ar, b.root, ld))
    IN  built(buildTopFromJSON(<<>>, v))

\* s.UnmarshalJSON(data) with no loader set.
UnmarshalJSON(v) == UnmarshalWith(v, 0)

-----------------------------------------------------------------------------
(* Spec: a schema document is parsed and resolved by UnmarshalJSON, then   *)
(* an instance is validated against it.  The documents and instances are   *)
(* drawn from the families below.                                          *)

O1(k, v) == JObj(k :> v)

O2(k1, v1, k2, v2) == JObj((k1 :> v1) @@ (k2 :> v2))

O3(k1, v1, k2, v2, k3, v3) == JObj((k1 :> v1) @@ (k2 :> v2) @@ (k3 :> v3))

EmptyObj == JObj(<<>>)

\* Nested properties: properties/p1/properties/p2/.../leaf.
PropNames == {"name", "a/b"}

MaxNest == 2

NamePaths == UNION {[1..n -> PropNames] : n \in 1..MaxNest}

LeafSchema == O2("type", JStr("string"), "minLength", JNum(2))

RECURSIVE NestDoc(_)
NestDoc(names) ==
    IF names = <<>> THEN LeafSchema
    ELSE O1("properties", O1(Head(names), NestDoc(Tail(names))))

RECURSIVE NestInst(_, _)
NestInst(names, v) ==
    IF names = <<>> THEN v ELSE O1(Head(names), NestInst(Tail(names), v))

LeafValues == {JNum(123), JStr("x"), JStr("ok")}

NestCases == {<<NestDoc(p), NestInst(p, v)>> : p \in NamePaths, v \in LeafValues}

\* required at the root, next to a properties keyword.
ReqNames == {"name", "id"}

MaxRequired == 2

ReqLists == UNION {[1..n -> ReqNames] : n \in 0..MaxRequired}

ReqDoc(r) ==
    O2("properties", O1("name", O1("type", JStr("string"))),
       "required", JArr([i \in DOMAIN r |-> JStr(r[i])]))

ReqInstances ==
    {EmptyObj, O1("name", JStr("n")), O1("id", JNum(1)),
     O2("name", JStr("n"), "id", JNum(1)), O1("name", JNum(5))}

ReqCases == {<<ReqDoc(r), i>> : r \in ReqLists, i \in ReqInstances}

\* A subschema whose evaluation raises a non-validation error, under each
\* keyword that evaluates subschemas, with and without a sibling keyword
\* that fails validation.
FatalSchemas == {O1("maxLength", JNum(-1)), O1("type", JStr("bogus"))}

Wrappers == {"allOf", "anyOf", "oneOf", "not", "if", "contains", "contains0", "properties"}

Wrap(w, sub) ==
    CASE w \in {"allOf", "anyOf", "oneOf"} -> w :> JArr(<<sub>>)
      [] w \in {"not", "if", "contains"} -> w :> sub
      [] w = "contains0" -> ("contains" :> sub) @@ ("minContains" :> JNum(0))
      [] w = "properties" -> w :> O1("p", sub)

FatalDoc(w, sub, sibling) ==
    JObj(Wrap(w, sub) @@ (IF sibling THEN "const" :> JNull ELSE <<>>))

\* Whether the evaluation of FatalDoc(w, ...) on inst evaluates the subschema.
Reaches(w, inst) ==
    CASE w \in {"contains", "contains0"} -> inst.t = "arr" /\ Len(inst.e) > 0
      [] w = "properties" -> inst.t = "obj" /\ "p" \in DOMAIN inst.f
      [] OTHER -> TRUE

FatalInstances == {JStr("x"), JArr(<<JStr("x")>>), O1("p", JStr("x"))}

FatalCases ==
    {<<FatalDoc(w, f, b), i>> :
        w \in Wrappers, f \in FatalSchemas, b \in BOOLEAN, i \in FatalInstances}

\* References: to the root, by JSON pointer, by anchor, by relative URI,
\* into the value of a keyword the vocabulary lacks, and one that names
\* nothing.
StringSchema == O1("type", JStr("string"))

RefDocs ==
    {O2("properties", O1("p", O1("$ref", JStr("#"))), "type", JStr("object")),
     O2("$ref", JStr("#/$defs/S"), "$defs", O1("S", StringSchema)),
     O2("$ref", JStr("#S"), "$defs", O1("S", O2("$anchor", JStr("S"), "type", JStr("string")))),
     O2("$ref", JStr("#/x-schema"), "x-schema", StringSchema),
     O3("$ref", JStr("#/x-schema"), "x-schema", O1("$ref", JStr("#/$defs/S")),
        "$defs", O1("S", StringSchema)),
     O2("allOf", JArr(<<O1("$ref", JStr("#/$defs/S"))>>),
        "$defs", O2("S", O1("$ref", JStr("#/$defs/A")), "A", StringSchema)),
     O3("$id", JStr("http://h/b"), "allOf", JArr(<<O1("$ref", JStr("a"))>>),
        "$defs", O1("A", O2("$id", JStr("http://h/a"), "type", JStr("string")))),
     O2("$ref", JStr("#/$defs/S/x-schema"), "$defs", O1("S", StringSchema)),
     O1("$ref", JStr("#nope"))}

RefInstances == {JStr("s"), JNum(1), O1("p", JStr("s")), O1("p", O1("p", JNum(1)))}

RefCases == {<<d, i>> : d \in RefDocs, i \in RefInstances}

\* Dynamic anchors.  DynA declares the dynamic anchor T on a string schema
\* and refers to "#T" dynamically; DynB evaluates DynA in place through
\* $ref and, when override holds, declares T on an integer schema.
AnchorSchema(name, typ) == O2("$dynamicAnchor", JStr(name), "type", JStr(typ))

DynA ==
    O3("$id", JStr("http://h/a"),
       "allOf", JArr(<<O1("$dynamicRef", JStr("#T"))>>),
       "$defs", O1("tA", AnchorSchema("T", "string")))

DynB(override) ==
    O2("$ref", JStr("#/$defs/A"),
       "$defs", JObj(("A" :> DynA)
                     @@ (IF override THEN "tB" :> AnchorSchema("T", "integer") ELSE <<>>)))

\* Documents that declare dynamic anchors: at the root, in a subschema,
\* two under one base, and under a base that is not the root.
AnchorDocs ==
    {AnchorSchema("T", "string"),
     O2("type", JStr("string"), "$defs", O1("S", AnchorSchema("T", "string"))),
     O1("$defs", O2("A", AnchorSchema("T", "string"), "S", AnchorSchema("S", "string"))),
     O2("$dynamicAnchor", JStr("S"), "$defs",
        O1("A", O2("$id", JStr("http://h/a"), "$defs", O1("tA", AnchorSchema("T", "string"))))),
     DynA}

DynInstances == {JNum(7), JStr("7"), JNull}

\* A $dynamicRef that resolves statically, to the plain anchor T of its own
\* resource, evaluated while the dynamic anchor T of the root is in scope.
DynStatic ==
    JObj(("$dynamicAnchor" :> JStr("T")) @@ ("type" :> JStr("object"))
         @@ ("properties" :> O1("p", O1("$ref", JStr("http://h/b"))))
         @@ ("$defs" :> O1("B", O3("$id", JStr("http://h/b"),
                                   "allOf", JArr(<<O1("$dynamicRef", JStr("#T"))>>),
                                   "$defs", O1("tB", O2("$anchor", JStr("T"),
                                                        "type", JStr("string")))))))

\* A $dynamicRef to a dynamic anchor of its resource, reached by a JSON
\* Pointer that skips the root of that resource.
DynDetached ==
    O2("$ref", JStr("http://h/a#/$defs/S"),
       "$defs", O1("A", O2("$id", JStr("http://h/a"),
                           "$defs", O2("S", O1("$dynamicRef", JStr("#T")),
                                       "tA", AnchorSchema("T", "string")))))

DynPrecedenceInstances == {O1("p", JStr("s")), O1("p", JNum(1)), JStr("s"), JNum(1)}

DynPrecedenceCases ==
    {<<d, i>> : d \in {DynStatic, DynDetached}, i \in DynPrecedenceInstances}

DynCases == {<<d, i>> : d \in {DynB(TRUE), DynB(FALSE)} \cup AnchorDocs, i \in DynInstances}

\* Keywords the vocabulary lacks, added to the root of a schema and to a
\* subschema of it.
UnknownNames == {"x-unknown", ""}

UnknownValues == {JNum(1), O1("type", JStr("integer"))}

UnknownBases == {StringSchema, ReqDoc(<<"name">>)}

AddKeyword(d, name, v) == JObj((name :> v) @@ d.f)

UnderProperty(d) == O1("properties", O1("p", d))

UnknownDocs ==
    UnknownBases \cup {UnderProperty(b) : b \in UnknownBases}
    \cup {AddKeyword(b, n, v) : b \in UnknownBases, n \in UnknownNames, v \in UnknownValues}
    \cup {UnderProperty(AddKeyword(b, n, v)) :
            b \in UnknownBases, n \in UnknownNames, v \in UnknownValues}

UnknownInstances == {JStr("s"), JNum(1), EmptyObj, O1("p", JNum(1))}

UnknownCases == {<<d, i>> : d \in UnknownDocs, i \in UnknownInstances}

\* unevaluatedProperties beside allOf: two branches whose properties
\* evaluate a and b.  With typed set, the branch of a wants a string.
UnevalDoc(typed) ==
    O2("allOf",
       JArr(<<O1("properties", O1("a", IF typed THEN StringSchema ELSE EmptyObj)),
              O1("properties", O1("b", EmptyObj))>>),
       "unevaluatedProperties", JBool(FALSE))

UnevalNames == {"a", "b", "c", "d"}

UnevalValues == {JNum(1), JStr("s")}

MaxProps == 3

\* The objects with at most MaxProps of the names, every value being v.
UnevalInstances ==
    {JObj([n \in N |-> v]) :
        N \in {M \in SUBSET UnevalNames : Cardinality(M) <= MaxProps},
                             v \in UnevalValues}

UnevalCases == {<<UnevalDoc(t), i>> : t \in BOOLEAN, i \in UnevalInstances}

\* References to remote schemas: to one that refers to itself, twice to
\* one URI with different fragments, to two that refer to each other, to
\* an anchor of a remote schema, and to a URI the loader knows nothing at.
LoadDocs ==
    {O1("$ref", JStr("http://h/self")),
     O1("allOf", JArr(<<O1("$ref", JStr("http://h/self#/$defs/a")),
                        O1("$ref", JStr("http://h/self"))>>)),
     O1("$ref", JStr("http://h/m1")),
     O1("properties", O2("p", O1("$ref", JStr("http://h/m2#/$defs/t")),
                         "q", O1("$ref", JStr("http://h/m1")))),
     O1("allOf", JArr(<<O1("$ref", JStr("http://h/an#S")),
                        O1("$ref", JStr("http://h/an#/type"))>>)),
     O1("$ref", JStr("http://h/none"))}

LoadInstances == {JStr("s"), JNum(1), O1("p", JStr("s")), O1("p", JNum(1))}

LoadCases == {<<d, i>> : d \in LoadDocs, i \in LoadInstances}

\* Defaults.  DefaultDoc gives n the default 5 and, with req, requires n.
\* SharedDefaultDoc has two allOf branches for the property p: the first
\* gives p the default {}, the second gives the property q of p the
\* default 1.
DefaultDoc(req) ==
    JObj(("properties" :> O2("n", O1("default", JNum(5)), "name", StringSchema))
         @@ (IF req THEN "required" :> JArr(<<JStr("n")>>) ELSE <<>>))

SharedDefaultDoc ==
    O1("allOf",
       JArr(<<O1("properties", O1("p", O1("default", EmptyObj))),
              O1("properties",
                 O1("p", O1("properties", O1("q", O1("default", JNum(1))))))>>))

DefaultDocs == {DefaultDoc(req) : req \in BOOLEAN} \cup {SharedDefaultDoc}

DefaultInstances ==
    {EmptyObj, O1("n", JNum(1)), O1("name", JStr("x")), O1("name", JNum(1)),
     O1("p", EmptyObj), JStr("s")}

DefaultCases == {<<d, i>> : d \in DefaultDocs, i \in DefaultInstances}

\* unevaluatedProperties beside a `not` whose subschema looks at a.
NotDoc ==
    O2("not", O1("properties", O1("a", StringSchema)),
       "unevaluatedProperties", JBool(FALSE))

NotInstances == {EmptyObj, O1("a", JNum(1)), O1("a", JStr("s")), O1("b", JNum(1)),
                 O2("a", JNum(1), "b", JNum(1))}

NotCases == {<<NotDoc, i>> : i \in NotInstances}

\* then/else in a node without `if`, beside an in-place subschema (a branch
\* of allOf, the target of $ref) that has an `if`.
IfLeakDocs ==
    {O2("allOf", JArr(<<O1("if", StringSchema)>>), kw, JBool(FALSE)) : kw \in {"then", "else"}}
        \cup {O3("$ref", JStr("#/$defs/A"), "$defs", O1("A", O1("if", StringSchema)),
                 kw, JBool(FALSE)) : kw \in {"then", "else"}}

\* A node with its own `if` (is the instance a string?) and `then`, beside
\* an in-place subschema whose `if` asks the opposite question.
IfOwnDocs ==
    {O3("if", StringSchema, "then", JBool(FALSE),
        "allOf", JArr(<<O1("if", O1("type", JStr("number")))>>)),
     JObj(("if" :> StringSchema) @@ ("then" :> JBool(FALSE))
          @@ ("$ref" :> JStr("#/$defs/A"))
          @@ ("$defs" :> O1("A", O1("if", O1("type", JStr("number"))))))}

IfInstances == {JStr("s"), JNum(1)}

IfCases == {<<d, i>> : d \in IfLeakDocs \cup IfOwnDocs, i \in IfInstances}

\* Keywords that descend into the instance: the value that fails is the
\* number 1, under a property, under an element, and under both.
PathDocs ==
    {O1("properties", O1("p", StringSchema)),
     O1("properties", O1("p", O1("properties", O1("q", StringSchema)))),
     O1("items", StringSchema),
     O1("prefixItems", JArr(<<StringSchema, StringSchema>>)),
     O2("prefixItems", JArr(<<StringSchema>>), "items", StringSchema),
     O1("properties", O1("p", O1("items", StringSchema))),
     O1("items", O1("properties", O1("p", StringSchema)))}

PathInstances ==
    {O1("p", JNum(1)), O1("p", O1("q", JNum(1))), O2("p", JStr("s"), "q", JNum(1)),
     JArr(<<JNum(1)>>), JArr(<<JStr("s"), JNum(1)>>), JArr(<<JStr("s"), JStr("s")>>),
     O1("p", JArr(<<JStr("s"), JNum(1)>>)), JArr(<<O1("p", JStr("s")), O1("p", JNum(1))>>)}

PathCases == {<<d, i>> : d \in PathDocs, i \in PathInstances}

\* additionalProperties:false beside the keywords named by own: the node's
\* own properties, which looks at a, and in-place subschemas (a branch of
\* allOf, the target of $ref) whose properties looks at b.
AdditionalDoc(own) ==
    JObj([name \in own \cup {"additionalProperties"} |->
            CASE name = "additionalProperties" -> JBool(FALSE)
              [] name = "properties" -> O1("a", EmptyObj)
              [] name = "allOf" -> JArr(<<O1("properties", O1("b", EmptyObj))>>)
              [] name = "$ref" -> JStr("#/$defs/B")
              [] name = "$defs" -> O1("B", O1("properties", O1("b", EmptyObj)))])

AdditionalDocs ==
    {AdditionalDoc(own) : own \in {{}, {"properties"}, {"allOf"}, {"properties", "allOf"},
                                   {"$ref", "$defs"}, {"properties", "$ref", "$defs"}}}

AdditionalInstances ==
    {EmptyObj, O1("a", JNum(1)), O1("b", JNum(1)), O2("a", JNum(1), "b", JNum(1)), JNum(1)}

AdditionalCases == {<<d, i>> : d \in AdditionalDocs, i \in AdditionalInstances}

\* The resource B has its own $id.  BaseAnchorDoc: B declares the anchor T
\* with kw, and the root refers to it by the URI of B.  BaseRefDoc: B
\* refers to "#T" with kw; its own resource has the anchor T on a string
\* schema, the resource of the root has it on a number schema.
BaseAnchorDoc(kw) ==
    O2("$ref", JStr("http://h/b#T"),
       "$defs", O1("B", O3("$id", JStr("http://h/b"), kw, JStr("T"),
                           "type", JStr("string"))))

BaseRefDoc(kw) ==
    O2("$ref", JStr("#/$defs/B"),
       "$defs", O2("A", O2("$anchor", JStr("T"), "type", JStr("number")),
                   "B", O3("$id", JStr("http://h/b"), kw, JStr("#T"),
                           "$defs", O1("tB", O2("$anchor", JStr("T"),
                                                "type", JStr("string"))))))

BaseDocs ==
    {BaseAnchorDoc(kw) : kw \in {"$anchor", "$dynamicAnchor"}}
        \cup {BaseRefDoc(kw) : kw \in {"$ref", "$dynamicRef"}}

BaseCases == {<<d, i>> : d \in BaseDocs, i \in {JStr("s"), JNum(1)}}

Cases ==
    PathCases \cup BaseCases \cup AdditionalCases \cup DynPrecedenceCases \cup NestCases \cup ReqCases \cup FatalCases \cup RefCases \cup DynCases \cup UnknownCases
        \cup UnevalCases \cup LoadCases \cup DefaultCases \cup NotCases \cup IfCases

\* The options each case is validated with: nil, and for the documents with
\* defaults ApplyDefaults as well.
CaseOpts(c) == IF c \in DefaultCases THEN {NoOpts, WithDefaults} ELSE {NoOpts}

\* The loader hooks each case is parsed under: none, and for the documents
\* with remote references the hook Loader as well.
CaseLoaders(c) == IF c \in LoadCases THEN {0, RemoteLoader} ELSE {0}

PinnedSort == /\ sortIn = <<>> /\ sortOut = <<>> /\ vstack = <<>> /\ created = 0
              /\ PinnedOthers

Init ==
    /\ pc = "parse"
    /\ \E c \in Cases : /\ doc = c[1] /\ instance = c[2]
                         /\ opts \in CaseOpts(c) /\ loader \in CaseLoaders(c)
    /\ arena = <<>>
    /\ root = 0
    /\ result = NoErr
    /\ loads = <<>>
    /\ PinnedSort

\* json.Unmarshal(data, &schema): the builder, then Resolve.
Unmarshal ==
    /\ pc = "parse"
    /\ \E u \in {UnmarshalWith(doc, loader)} :
           /\ arena' = u.ar
           /\ root' = u.root
           /\ result' = u.err
           /\ loads' = u.loads
           /\ pc' = IF u.err = NoErr THEN "resolved" ELSE "rejected"
    /\ UNCHANGED <<doc, instance, vstack, created, sortIn, sortOut, opts, loader, others>>

\* schema.ValidateWithOpts(instance, opts): the error it returns, and what
\* the maps of the instance and the values of the schema hold after it.
Validate ==
    /\ pc = "resolved"
    /\ \E v \in {ValidateCall(arena, root, instance, opts)} :
           /\ result' = v.err
           /\ instance' = InstanceAfter(v.st)
           /\ arena' = ArenaAfter(arena, v.st)
    /\ pc' = "validated"
    /\ UNCHANGED <<doc, root, vstack, created, sortIn, sortOut, opts, loads, loader, others>>

Next == Unmarshal \/ Validate

Spec == Init /\ [][Next]_vars

-----------------------------------------------------------------------------
(* SpecDepth: one ValidateWithOpts call taken one schema activation at a   *)
(* time.  vstack is the Go call stack: one frame for every running loop    *)
(* over s.Parts, holding the node, the index of the Part being evaluated,  *)
(* the subState and topErr of ValidateSubSchema / ValidateInPlaceSchema.   *)
(* The documents reach their subschemas through $ref and not, the two      *)
(* keywords the frames follow; every other Part is evaluated in one piece. *)

SelfRef == O1("$ref", JStr("#"))

CyclicDocs ==
    {SelfRef,
     O2("$ref", JStr("#/$defs/A"),
        "$defs", O2("A", O1("$ref", JStr("#/$defs/B")), "B", SelfRef)),
     O1("not", SelfRef),
     O2("type", JStr("string"), "$ref", JStr("#"))}

DepthDocs ==
    CyclicDocs \cup
    {O2("$ref", JStr("#/$defs/S"), "$defs", O1("S", StringSchema)),
     O1("not", StringSchema),
     O2("not", O1("not", O1("$ref", JStr("#/$defs/S"))), "$defs", O1("S", StringSchema))}

DepthInstances == {JStr("x"), JNum(1)}

InitDepth ==
    /\ pc = "ready"
    /\ doc \in DepthDocs
    /\ instance \in DepthInstances
    /\ \E u \in {UnmarshalJSON(doc)} : arena = u.ar /\ root = u.root
    /\ result = NoErr
    /\ vstack = <<>>
    /\ created = 0
    /\ sortIn = <<>>
    /\ sortOut = <<>>
    /\ opts = NoOpts
    /\ loads = <<>>
    /\ loader = 0
    /\ PinnedOthers

\* The frame of a loop over the Parts of node s that starts on subState st.
Frame(s, st) == [s |-> s, i |-> 1, st |-> [st EXCEPT !.Schema = s], err |-> NoErr]

Top == vstack[Len(vstack)]

\* The keywords whose subschema gets a frame of its own.
Follows(p) == IsKnown(p) /\ p.kw \in {"$ref", "not"}

\* The state the Part at f.i hands to ValidateInPlaceSchema: validateRef
\* hands its own state on, ValidateNot a child of it.
CallState(ar, f) ==
    LET state == [f.st EXCEPT !.Index = f.i]
    IN  IF ar[f.s][f.i].kw = "not" THEN Child(state).st ELSE state

\* Whether the Part at f.i enters its subschema: the reference is resolved
\* and no Child call on the way refuses.
Descends(ar, f) ==
    LET p == ar[f.s][f.i]
        state == [f.st EXCEPT !.Index = f.i]
    IN  /\ Follows(p)
        /\ p.kw = "$ref" => HasPart(ar[f.s], "$$resolvedRef", TRUE)
        /\ p.kw = "not" => Child(state).err = NoErr
        /\ Child(CallState(ar, f)).err = NoErr

\* Accumulate for a loop that ends at the first Part that reports an error.
AccumulateUntilError(f, p, r) ==
    [f EXCEPT !.i = IF r.err = NoErr THEN @ + 1 ELSE Len(arena[f.s]) + 1,
              !.st = r.st, !.err = AddPartError(@, p, r.err)]

\* Frame f after the loop has handled the result r of the Part p.
Accumulate(f, p, r) ==
    [f EXCEPT !.i = @ + 1, !.st = r.st, !.err = AddPartError(@, p, r.err)]

\* The loop of frame f run up to the next Part that enters a subschema, or
\* to its end: [f, made], made being the greatest Depth created so far.
RECURSIVE Advance(_, _, _, _)
Advance(ar, inst, f, made) ==
    IF f.i > Len(ar[f.s]) \/ Descends(ar, f) THEN [f |-> f, made |-> made]
    ELSE LET p == ar[f.s][f.i]
             state == [f.st EXCEPT !.Index = f.i]
             deepest(c) ==
                 IF Follows(p) /\ p.kw = "not" /\ c.err = NoErr /\ c.st.Depth > made
                 THEN c.st.Depth ELSE made
         IN  CHOOSE a \in {Advance(ar, inst, g, m) :
                              g \in {Accumulate(f, p, KeywordValidate(ar, p, inst, state))},
                              m \in {deepest(Child(state))}} : TRUE

\* ValidateWithOpts: the root state, and ValidateSubSchema on the root.
StartValidate ==
    /\ pc = "ready"
    /\ LET c == Child(RootState(root, instance, NoOpts))
       IN  /\ vstack' = <<Frame(root, c.st)>>
           /\ created' = c.st.Depth
    /\ pc' = "eval"
    /\ UNCHANGED <<doc, arena, root, instance, result, sortIn, sortOut, opts, loads, loader, others>>

\* The running loop reaches a $ref or not Part: ValidateInPlaceSchema makes
\* the child state and starts the loop over the Parts of the subschema.
Descend ==
    /\ pc = "eval"
    /\ \E a \in {Advance(arena, <<>>, Top, created)} :
           /\ a.f.i <= Len(arena[a.f.s])
           /\ \E p \in {arena[a.f.s][a.f.i]}, c \in {Child(CallState(arena, a.f))} :
                  /\ vstack' = Append([vstack EXCEPT ![Len(vstack)] = a.f],
                                      Frame(IF p.kw = "$ref"
                                            THEN FirstPart(arena[a.f.s], "$$resolvedRef", TRUE).val
                                            ELSE p.val,
                                            c.st))
                  /\ created' = IF c.st.Depth > a.made THEN c.st.Depth ELSE a.made
    /\ UNCHANGED <<pc, doc, arena, root, instance, result, sortIn, sortOut, opts, loads, loader, others>>

\* The frames rest after the loop of frame f, entered from the last of them,
\* has ended: validateRef hands the result of ValidateInPlaceSchema on,
\* ValidateNot inverts it.
Resume(rest, f) ==
    LET g == rest[Len(rest)]
        p == arena[g.s][g.i]
        kept(r) == IF p.kw = "not" THEN NotResult([g.st EXCEPT !.Index = g.i], r) ELSE r
        back(k) == [rest EXCEPT ![Len(rest)] = Accumulate(g, p, k)]
    IN  back(kept(InPlaceResult(CallState(arena, g), [err |-> f.err, st |-> f.st])))

\* The running loop reaches the end of the Parts: its error goes back to
\* the keyword that entered it, or out of ValidateWithOpts.
Return ==
    /\ pc = "eval"
    /\ \E a \in {Advance(arena, <<>>, Top, created)} :
           /\ a.f.i > Len(arena[a.f.s])
           /\ created' = a.made
           /\ IF Len(vstack) = 1
              THEN /\ vstack' = <<>>
                   /\ result' = a.f.err
                   /\ pc' = "done"
              ELSE /\ vstack' = Resume(SubSeq(vstack, 1, Len(vstack) - 1), a.f)
                   /\ UNCHANGED <<pc, result>>
    /\ UNCHANGED <<doc, arena, root, instance, sortIn, sortOut, opts, loads, loader, others>>

NextDepth == StartValidate \/ Descend \/ Return

SpecDepth == InitDepth /\ [][NextDepth]_vars

\* The call runs on one goroutine that never waits: a step that can be
\* taken is taken.
SpecDepthFair == SpecDepth /\ WF_vars(NextDepth)

-----------------------------------------------------------------------------
(* SpecScope: the loop of ValidateSubSchema over the Parts of the root,    *)
(* one Part at a time.  vstack holds the one frame of that loop; a Part is  *)
(* evaluated in one piece, the evaluations it starts included.  The root   *)
(* declares the dynamic anchor N, and its property p is validated against  *)
(* the root again, through $ref or through $dynamicRef.                    *)

RecursiveAnchorDoc(kw, ref) ==
    O2("$dynamicAnchor", JStr("N"), "properties", O1("p", O1(kw, JStr(ref))))

ScopeDocs ==
    {RecursiveAnchorDoc("$ref", "#"), RecursiveAnchorDoc("$dynamicRef", "#N"),
     O2("$dynamicAnchor", JStr("N"), "properties", O1("p", StringSchema)),
     DynB(TRUE)}

ScopeInstances ==
    {JStr("s"), EmptyObj, O1("p", JStr("s")), O1("p", EmptyObj), O1("p", O1("p", JNum(1))),
     O1("q", JNum(1))}

InitScope ==
    /\ pc = "ready"
    /\ doc \in ScopeDocs
    /\ instance \in ScopeInstances
    /\ \E u \in {UnmarshalJSON(doc)} : arena = u.ar /\ root = u.root
    /\ result = NoErr
    /\ vstack = <<>>
    /\ created = 0
    /\ sortIn = <<>>
    /\ sortOut = <<>>
    /\ opts = NoOpts
    /\ loads = <<>>
    /\ loader = 0
    /\ PinnedOthers

\* ValidateWithOpts makes the root state, ValidateSubSchema its child, and
\* the loop over the Parts of the root starts.
EnterLoop ==
    /\ pc = "ready"
    /\ vstack' = <<Frame(root, Child(RootState(root, instance, opts)).st)>>
    /\ pc' = "loop"
    /\ UNCHANGED <<doc, arena, root, instance, result, created, sortIn, sortOut,
                   opts, loads, loader, others>>

\* One iteration of the loop: p.Keyword.Validate for the Part at Top.i.
EvalPart ==
    /\ pc = "loop"
    /\ Top.i <= Len(arena[Top.s])
    /\ \E p \in {arena[Top.s][Top.i]} :
          \E r \in {KeywordValidate(arena, p, <<>>, [Top.st EXCEPT !.Index = Top.i])} :
             vstack' = <<Accumulate(Top, p, r)>>
    /\ UNCHANGED <<pc, doc, arena, root, instance, result, created, sortIn, sortOut,
                   opts, loads, loader, others>>

\* The loop has ended: ValidateSubSchema returns topErr.
LeaveLoop ==
    /\ pc = "loop"
    /\ Top.i > Len(arena[Top.s])
    /\ result' = Top.err
    /\ vstack' = <<>>
    /\ pc' = "done"
    /\ UNCHANGED <<doc, arena, root, instance, created, sortIn, sortOut,
                   opts, loads, loader, others>>

NextScope == EnterLoop \/ EvalPart \/ LeaveLoop

SpecScope == InitScope /\ [][NextScope]_vars

-----------------------------------------------------------------------------
(* SpecParts: the same loop over nodes with up to six Parts that look at   *)
(* the instance and at no subschema, several of which can fail at once.    *)

PartsEntries ==
    {<<"type", JStr("string")>>, <<"maxLength", JNum(1)>>, <<"minLength", JNum(3)>>,
     <<"const", JNum(7)>>, <<"required", JArr(<<JStr("a")>>)>>, <<"x-note", JNum(1)>>}

PartsDocs ==
    {JObj([name \in {e[1] : e \in es} |-> (CHOOSE e \in es : e[1] = name)[2]]) :
        es \in SUBSET PartsEntries}

PartsInstances == {JStr("ab"), JNum(7), EmptyObj}

InitParts ==
    /\ pc = "ready"
    /\ doc \in PartsDocs
    /\ instance \in PartsInstances
    /\ \E u \in {UnmarshalJSON(doc)} : arena = u.ar /\ root = u.root
    /\ result = NoErr
    /\ vstack = <<>>
    /\ created = 0
    /\ sortIn = <<>>
    /\ sortOut = <<>>
    /\ opts = NoOpts
    /\ loads = <<>>
    /\ loader = 0
    /\ PinnedOthers

SpecParts == InitParts /\ [][NextScope]_vars

\* The call runs on one goroutine that never waits.
SpecPartsFair == SpecParts /\ WF_vars(NextScope)

-----------------------------------------------------------------------------
(* SpecChild: ValidationStates as Go holds them.  Notes is a struct around  *)
(* a map and InstancePath a slice, so two states can share what they hold. *)
(* data is the heap, [maps, arrays]: a state's Notes is the index of its   *)
(* map (0 for nil) and its InstancePath is [arr, len], the index of the    *)
(* backing array (0 for nil) and the length; the capacity is the length of *)
(* the array.  vstack holds the states made so far, the root state first;  *)
(* pc is the last call, [op, on], on being the index of its receiver.      *)

MaxStates == 3

MaxSteps == 4

Tokens == {"p", "q"}

NoteNames == {"if"}

NilSlice == [arr |-> 0, len |-> 0]

\* The notes a state holds, and its instance path.
NotesOf(h, vs) == IF vs.Notes = 0 THEN <<>> ELSE h.maps[vs.Notes]

PathOf(h, vs) ==
    IF vs.InstancePath.arr = 0 THEN <<>>
    ELSE SubSeq(h.arrays[vs.InstancePath.arr], 1, vs.InstancePath.len)

\* An array of capacity cap that starts with the tokens of path.
NewArray(path, cap) == [i \in 1..cap |-> IF i <= Len(path) THEN path[i] ELSE ""]

\* append(sl, tok...) for a slice sl and the tokens toks: [h, sl].  The
\* tokens are written behind the slice when the capacity allows it;
\* otherwise a new array of capacity cap holds the copy.
AppendSlice(h, sl, toks, cap) ==
    LET old == IF sl.arr = 0 THEN <<>> ELSE SubSeq(h.arrays[sl.arr], 1, sl.len)
        n == sl.len + Len(toks)
    IN  IF toks = <<>> THEN [h |-> h, sl |-> sl]
        ELSE IF sl.arr # 0 /\ n <= Len(h.arrays[sl.arr])
        THEN [h |-> [h EXCEPT !.arrays[sl.arr] =
                        [i \in DOMAIN @ |-> IF i > sl.len /\ i <= n THEN toks[i - sl.len]
                                            ELSE @[i]]],
              sl |-> [sl EXCEPT !.len = n]]
        ELSE [h |-> [h EXCEPT !.arrays = Append(@, NewArray(old \o toks, cap))],
              sl |-> [arr |-> Len(h.arrays) + 1, len |-> n]]

\* Child that hands its own map and slice to the state it returns.
ChildSharing(h, vs, cap) ==
    [h |-> h, err |-> NoErr, st |-> [vs EXCEPT !.Depth = vs.Depth + 1]]

\* vs.Child(): [h, err, st].  The notes are the zero Notes and the path is
\* append([]string(nil), vs.InstancePath...).
ChildRef(h, vs, cap) ==
    IF vs.Depth > MaxDepth
    THEN [h |-> h, err |-> Fatal("recursion while validating schema too deep"), st |-> vs]
    ELSE LET a == AppendSlice(h, NilSlice, PathOf(h, vs), cap)
         IN  [h |-> a.h, err |-> NoErr,
              st |-> [vs EXCEPT !.Depth = vs.Depth + 1, !.Notes = 0,
                                !.InstancePath = a.sl]]

\* vs.PushInstanceToken(tok) and vs.PopInstanceToken(): [h, st].
PushRef(h, vs, tok, cap) ==
    LET a == AppendSlice(h, vs.InstancePath, <<tok>>, cap)
    IN  [h |-> a.h, st |-> [vs EXCEPT !.InstancePath = a.sl]]

PopRef(h, vs) ==
    [h |-> h,
     st |-> IF vs.InstancePath.len > 0 THEN [vs EXCEPT !.InstancePath.len = @ - 1] ELSE vs]

\* vs.Notes.Set(name, val): [h, st].  A nil map is made first.
SetRef(h, vs, name, val) ==
    IF vs.Notes = 0
    THEN [h |-> [h EXCEPT !.maps = Append(@, name :> val)],
          st |-> [vs EXCEPT !.Notes = Len(h.maps) + 1]]
    ELSE [h |-> [h EXCEPT !.maps[vs.Notes] = NotesSet(@, name, val)], st |-> vs]

\* vs.Notes.AddNotes(vs2.Notes), the notes being scalars: [h, st].
RECURSIVE AddNotesRef(_, _, _, _)
AddNotesRef(h, vs, n2, names) ==
    IF names = <<>> THEN [h |-> h, st |-> vs]
    ELSE LET r == SetRef(h, vs, Head(names), n2[Head(names)])
         IN  AddNotesRef(r.h, r.st, n2, Tail(names))

RootStates ==
    [Root : {1}, RootState : {1}, Schema : {1}, Index : {2}, URI : {"http://h/a"},
     Depth : {0}, Opts : {NoOpts}, VersionData : {1}, Notes : {0, 1},
     InstancePath : {NilSlice, [arr |-> 1, len |-> 1]}]

InitChild ==
    /\ pc = [op |-> "", on |-> 0]
    /\ \E vs \in RootStates : vstack = <<vs>>
    /\ \E cap \in 1..2 :
          data = [maps |-> <<"if" :> NoteScalar(TRUE)>>, arrays |-> <<NewArray(<<"p">>, cap)>>]
    /\ created = 0
    /\ doc = JNull /\ arena = <<>> /\ root = 0 /\ instance = JNull /\ result = NoErr
    /\ sortIn = <<>> /\ sortOut = <<>> /\ opts = NoOpts /\ loads = <<>> /\ loader = 0
    /\ target = <<>> /\ builder = <<>> /\ gpc = <<>> /\ mu = <<>> /\ regs = <<>>

ChildRest ==
    UNCHANGED <<doc, arena, root, instance, result, sortIn, sortOut, opts, loads, loader,
                target, builder, gpc, mu, regs>>

\* The call op on the state i has returned r.
Called(op, i, r) ==
    /\ created < MaxSteps
    /\ created' = created + 1
    /\ pc' = [op |-> op, on |-> i]
    /\ data' = r.h
    /\ vstack' = IF op = "Child" THEN Append(vstack, r.st) ELSE [vstack EXCEPT ![i] = r.st]
    /\ ChildRest

MakeChild(i) ==
    /\ Len(vstack) < MaxStates
    /\ \E cap \in Len(PathOf(data, vstack[i]))..(Len(PathOf(data, vstack[i])) + 1) :
          Called("Child", i, ChildRef(data, vstack[i], cap))

PushToken(i) ==
    \E tok \in Tokens, cap \in (vstack[i].InstancePath.len + 1)..(vstack[i].InstancePath.len + 2) :
        Called("Push", i, PushRef(data, vstack[i], tok, cap))

PopToken(i) == Called("Pop", i, PopRef(data, vstack[i]))

SetNote(i) ==
    \E name \in NoteNames, val \in BOOLEAN :
        Called("Set", i, SetRef(data, vstack[i], name, NoteScalar(val)))

MergeNotes(i) ==
    \E j \in DOMAIN vstack \ {i} :
        Called("AddNotes", i,
               AddNotesRef(data, vstack[i], NotesOf(data, vstack[j]),
                           Keys(NotesOf(data, vstack[j]))))

NextChild ==
    \/ \E i \in DOMAIN vstack : MakeChild(i)
    \/ \E i \in DOMAIN vstack : PushToken(i)
    \/ \E i \in DOMAIN vstack : PopToken(i)
    \/ \E i \in DOMAIN vstack : SetNote(i)
    \/ \E i \in DOMAIN vstack : MergeNotes(i)

SpecChild == InitChild /\ [][NextChild]_vars

-----------------------------------------------------------------------------
(* SpecVocab: the vocabulary registry under a sequence of calls of one     *)
(* goroutine.  regs is the registry, [mapping, defval]: mapping from the   *)
(* schema URI to the vocabulary, defval the default vocabulary or          *)
(* NoVocabulary for nil.  A vocabulary is its Name and its Schema.  pc is  *)
(* the last call and result what it returned: NoErr, the error of          *)
(* SetDefaultSchema, or the panic of RegisterVocabulary.  A panic unwinds  *)
(* through the deferred Unlock and leaves the registry as the statements   *)
(* before it have made it.                                                 *)

MaxRegistryCalls == 4

NoVocabulary == [Name |-> "", Schema |-> ""]

Vocabularies ==
    {[Name |-> "draft2020-12", Schema |-> SchemaID],
     [Name |-> "draft2019-09", Schema |-> Draft201909ID],
     [Name |-> "draft7", Schema |-> "http://json-schema.org/draft-07/schema"]}

\* The names SetDefaultSchema is called with.
SchemaNames == {v.Name : v \in Vocabularies} \cup {"draft4"}

\* r.add(s, v, def): [r, err], err being the panic.
add(r, name, v, isDef) ==
    IF name \in DOMAIN r.mapping
    THEN [r |-> r, err |-> Fatal("jsonschema: multiple attempts to add to registry")]
    ELSE LET stored == [r EXCEPT !.mapping = (name :> v) @@ @]
         IN  IF isDef
             THEN IF r.defval # NoVocabulary
                  THEN [r |-> stored, err |-> Fatal("jsonschema: multiple default vocabularies")]
                  ELSE [r |-> [stored EXCEPT !.defval = v], err |-> NoErr]
             ELSE [r |-> stored, err |-> NoErr]

\* r.lookup(s) and r.def(), NoVocabulary for nil.
lookup(r, name) == IF name \in DOMAIN r.mapping THEN r.mapping[name] ELSE NoVocabulary

def(r) ==
    IF r.defval # NoVocabulary THEN r.defval
    ELSE IF Cardinality(DOMAIN r.mapping) = 1
    THEN r.mapping[CHOOSE name \in DOMAIN r.mapping : TRUE]
    ELSE NoVocabulary

\* r.setDef(s): [r, err].
setDef(r, name) ==
    IF \E k \in DOMAIN r.mapping : r.mapping[k].Name = name
    THEN [r |-> [r EXCEPT !.defval = CHOOSE v \in Range(r.mapping) : v.Name = name],
          err |-> NoErr]
    ELSE [r |-> r, err |-> Fatal("setting default failed: unknown schema ID")]

\* r.clear().
clear(r) == [r |-> [mapping |-> <<>>, defval |-> NoVocabulary], err |-> NoErr]

InitVocab ==
    /\ pc = ""
    /\ regs = [mapping |-> <<>>, defval |-> NoVocabulary]
    /\ result = NoErr
    /\ created = 0
    /\ doc = JNull /\ arena = <<>> /\ root = 0 /\ instance = JNull
    /\ vstack = <<>> /\ sortIn = <<>> /\ sortOut = <<>> /\ opts = NoOpts
    /\ loads = <<>> /\ loader = 0
    /\ data = <<>> /\ target = <<>> /\ builder = <<>> /\ gpc = <<>> /\ mu = <<>>

\* The call op has returned c.
Returned(op, c) ==
    /\ created < MaxRegistryCalls
    /\ created' = created + 1
    /\ pc' = op
    /\ regs' = c.r
    /\ result' = c.err
    /\ UNCHANGED <<doc, arena, root, instance, vstack, sortIn, sortOut, opts, loads,
                   loader, data, target, builder, gpc, mu>>

RegisterVocabulary ==
    \E v \in Vocabularies, isDef \in BOOLEAN :
        Returned("RegisterVocabulary", add(regs, v.Schema, v, isDef))

SetDefaultSchema ==
    \E name \in SchemaNames : Returned("SetDefaultSchema", setDef(regs, name))

ClearVocabularies == Returned("ClearVocabularies", clear(regs))

NextVocab == RegisterVocabulary \/ SetDefaultSchema \/ ClearVocabularies

SpecVocab == InitVocab /\ [][NextVocab]_vars

-----------------------------------------------------------------------------
(* SpecDeref: DerefSchema applied to a parsed schema and a JSON pointer.   *)
(* target is [pointer, s, err]: the pointer, and after the call the node   *)
(* returned (0 for nil) and the error.                                     *)

DerefDocs ==
    {O3("properties", O2("a", StringSchema, "b", EmptyObj),
        "allOf", JArr(<<StringSchema, EmptyObj>>),
        "not", EmptyObj),
     O1("allOf", JArr(<<EmptyObj>>)),
     O1("properties", O1("a", O1("allOf", JArr(<<EmptyObj, StringSchema>>)))),
     O1("not", O1("properties", O1("b", EmptyObj))),
     EmptyObj}

DerefPointers ==
    {"", "/not", "/allOf/0", "/allOf/1", "/allOf/2", "/allOf/x", "/allOf",
     "/properties/a", "/properties/b", "/properties/c", "/properties",
     "/nosuch", "/not/nosuch", "/not/properties/b", "/properties/a/allOf/1",
     "/properties/a/allOf/2", "/properties/a/nosuch", "/type"}

InitDeref ==
    /\ pc = "parsed"
    /\ doc \in DerefDocs
    /\ \E u \in {UnmarshalJSON(doc)} : arena = u.ar /\ root = u.root
    /\ \E p \in DerefPointers : target = [pointer |-> p, s |-> 0, err |-> NoErr]
    /\ instance = JNull
    /\ result = NoErr
    /\ vstack = <<>>
    /\ created = 0
    /\ sortIn = <<>>
    /\ sortOut = <<>>
    /\ opts = NoOpts
    /\ loads = <<>>
    /\ loader = 0
    /\ data = <<>> /\ builder = <<>> /\ gpc = <<>> /\ mu = <<>> /\ regs = <<>>

\* jsonpointer.DerefSchema(schemaID, root, pointer).  A schema built from the
\* value of an unknown keyword is a new node of the arena.
Deref ==
    /\ pc = "parsed"
    /\ \E d \in {DerefSchema(arena, root, target.pointer)} :
          /\ target' = [target EXCEPT !.s = d.s, !.err = d.err]
          /\ arena' = d.ar
    /\ pc' = "derefed"
    /\ UNCHANGED <<doc, root, instance, result, vstack, created, sortIn, sortOut,
                   opts, loads, loader, data, builder, gpc, mu, regs>>

NextDeref == Deref

SpecDeref == InitDeref /\ [][NextDeref]_vars

-----------------------------------------------------------------------------
(* SpecBuilder: the programmatic Builder.  builder is [Parts, panicked];   *)
(* a Part of the builder is [Keyword, Value] and a PartValue is [shape, v] *)
(* with the shape named after the Go type (PartBool is "Bool", ...).       *)

ArgTypeTags ==
    {"Bool", "String", "Strings", "StringOrStrings", "Int", "Float", "Schema", "Schemas",
     "MapSchema", "SchemaOrSchemas", "MapArrayOrSchema", "Any"}

\* The keywords handed to the Builder: one of each argument type.
BuilderKeywords == {Kw("k", at, {}) : at \in ArgTypeTags}

\* Schema pointers handed to the Builder: 0 is nil.
BuilderSchemas == {0, 1}

MaxParts == 2

PartValue(shape, v) == [shape |-> shape, v |-> v]

MakePart(keyword, value) == [Keyword |-> keyword, Value |-> value]

\* Builder.check: TRUE when it returns, FALSE when it panics.
check(keyword, want) == keyword.ArgType \in {want, "Any"}

InitBuilder ==
    /\ pc = "building"
    /\ builder = [Parts |-> <<>>, panicked |-> FALSE]
    /\ doc = JNull /\ arena = <<>> /\ root = 0
    /\ instance = JNull
    /\ result = NoErr
    /\ vstack = <<>>
    /\ created = 0
    /\ sortIn = <<>>
    /\ sortOut = <<>>
    /\ opts = NoOpts
    /\ loads = <<>>
    /\ loader = 0
    /\ data = <<>> /\ target = <<>> /\ gpc = <<>> /\ mu = <<>> /\ regs = <<>>

\* The append of an Add* method.
Append1(part) ==
    /\ builder' = [builder EXCEPT !.Parts = Append(@, part)]
    /\ UNCHANGED pc

\* A panic of an Add* method: the goroutine unwinds, the Parts stay.
Panic ==
    /\ builder' = [builder EXCEPT !.panicked = TRUE]
    /\ pc' = "panicked"

Building == pc = "building" /\ Len(builder.Parts) < MaxParts

BuilderRest ==
    UNCHANGED <<doc, arena, root, instance, result, vstack, created, sortIn, sortOut,
                opts, loads, loader, data, target, gpc, mu, regs>>

AddBool ==
    /\ Building
    /\ \E keyword \in BuilderKeywords, v \in BOOLEAN :
          IF check(keyword, "Bool") THEN Append1(MakePart(keyword, PartValue("Bool", v)))
          ELSE Panic
    /\ BuilderRest

AddString ==
    /\ Building
    /\ \E keyword \in BuilderKeywords, v \in {"x"} :
          IF keyword.ArgType = "StringOrStrings"
          THEN Append1(MakePart(keyword, PartValue("StringOrStrings", [String |-> v, Strings |-> <<>>])))
          ELSE IF check(keyword, "String")
          THEN Append1(MakePart(keyword, PartValue("String", v)))
          ELSE Panic
    /\ BuilderRest

AddStrings ==
    /\ Building
    /\ \E keyword \in BuilderKeywords, v \in {<<"x", "y">>} :
          IF keyword.ArgType = "StringOrStrings"
          THEN Append1(MakePart(keyword, PartValue("StringOrStrings", [String |-> "", Strings |-> v])))
          ELSE IF check(keyword, "Strings")
          THEN Append1(MakePart(keyword, PartValue("Strings", v)))
          ELSE Panic
    /\ BuilderRest

AddInt ==
    /\ Building
    /\ \E keyword \in BuilderKeywords, v \in {1} :
          IF check(keyword, "Int") THEN Append1(MakePart(keyword, PartValue("Int", v)))
          ELSE Panic
    /\ BuilderRest

AddFloat ==
    /\ Building
    /\ \E keyword \in BuilderKeywords, v \in {2} :
          IF check(keyword, "Float") THEN Append1(MakePart(keyword, PartValue("Float", v)))
          ELSE Panic
    /\ BuilderRest

AddSchema ==
    /\ Building
    /\ \E keyword \in BuilderKeywords, v \in BuilderSchemas :
          IF check(keyword, "Schema") /\ v # 0
          THEN Append1(MakePart(keyword, PartValue("Schema", v)))
          ELSE Panic
    /\ BuilderRest

AddSchemas ==
    /\ Building
    /\ \E keyword \in BuilderKeywords, v \in {<<>>, <<1>>, <<1, 0>>} :
          IF check(keyword, "Schemas") /\ Len(v) # 0 /\ \A i \in DOMAIN v : v[i] # 0
          THEN Append1(MakePart(keyword, PartValue("Schemas", v)))
          ELSE Panic
    /\ BuilderRest

AddMapSchema ==
    /\ Building
    /\ \E keyword \in BuilderKeywords, v \in {"a" :> 1} :
          IF check(keyword, "MapSchema")
          THEN Append1(MakePart(keyword, PartValue("MapSchema", v)))
          ELSE Panic
    /\ BuilderRest

AddSchemaOrSchemas ==
    /\ Building
    /\ \E keyword \in BuilderKeywords, v \in {[Schema |-> 1, Schemas |-> <<>>]} :
          IF check(keyword, "SchemaOrSchemas")
          THEN Append1(MakePart(keyword, PartValue("SchemaOrSchemas", v)))
          ELSE Panic
    /\ BuilderRest

AddMapArrayOrSchema ==
    /\ Building
    /\ \E keyword \in BuilderKeywords, v \in {"a" :> [Schema |-> 1, Array |-> <<>>]} :
          IF check(keyword, "MapArrayOrSchema")
          THEN Append1(MakePart(keyword, PartValue("MapArrayOrSchema", v)))
          ELSE Panic
    /\ BuilderRest

AddAny ==
    /\ Building
    /\ \E keyword \in BuilderKeywords, v \in {JNum(1)} :
          Append1(MakePart(keyword, PartValue("Any", v)))
    /\ BuilderRest

NextBuilder ==
    \/ AddBool \/ AddString \/ AddStrings \/ AddInt \/ AddFloat \/ AddSchema \/ AddSchemas
    \/ AddMapSchema \/ AddSchemaOrSchemas \/ AddMapArrayOrSchema \/ AddAny

SpecBuilder == InitBuilder /\ [][NextBuilder]_vars

-----------------------------------------------------------------------------
(* MarshalJSON.  The buffer is a string, built character by character as   *)
(* the code writes it; every operator returns [buf, err].  The numbers of  *)
(* the model are integers and its strings hold no control characters.      *)

\* json.Marshal of a string: quotes around it, with " and \ escaped.
RECURSIVE escape(_)
escape(str) ==
    IF str = "" THEN ""
    ELSE LET out(c) == IF c \in {"\"", "\\"} THEN "\\" \o c ELSE c
         IN  out(SubSeq(str, 1, 1)) \o escape(SubSeq(str, 2, Len(str)))

encodeString(str) == "\"" \o escape(str) \o "\""

\* The elements of a string array, with a comma before all but the first.
RECURSIVE encodeStrings(_, _)
encodeStrings(strs, i) ==
    IF i > Len(strs) THEN ""
    ELSE (IF i > 1 THEN "," ELSE "") \o encodeString(strs[i]) \o encodeStrings(strs, i + 1)

\* encoding/json on a decoded JSON value: object keys in sorted order.
RECURSIVE Encode(_)
RECURSIVE EncodeElems(_, _)
RECURSIVE EncodeMembers(_, _, _)
Encode(v) ==
    CASE v.t = "null" -> "null"
      [] v.t = "bool" -> IF v.b THEN "true" ELSE "false"
      [] v.t = "num"  -> ToString(v.n)
      [] v.t = "str"  -> encodeString(v.s)
      [] v.t = "arr"  -> "[" \o EncodeElems(v.e, 1) \o "]"
      [] v.t = "obj"  -> "{" \o EncodeMembers(v.f, SortedKeys(DOMAIN v.f), 1) \o "}"

EncodeElems(e, i) ==
    IF i > Len(e) THEN ""
    ELSE (IF i > 1 THEN "," ELSE "") \o Encode(e[i]) \o EncodeElems(e, i + 1)

EncodeMembers(f, names, i) ==
    IF i > Len(names) THEN ""
    ELSE (IF i > 1 THEN "," ELSE "") \o encodeString(names[i]) \o ":" \o Encode(f[names[i]])
         \o EncodeMembers(f, names, i + 1)

\* s.isBoolSchema(): [isBoolSchema, isTrueSchema].
RECURSIVE isBoolSchemaLoop(_, _, _)
isBoolSchemaLoop(parts, i, r) ==
    IF i > Len(parts) THEN r
    ELSE IF (parts[i].kw = "$schema" /\ parts[i].at = "String") \/ parts[i].gen
    THEN isBoolSchemaLoop(parts, i + 1, r)
    ELSE IF ~(parts[i].kw = "$bool" /\ parts[i].at = "Bool")
    THEN [isBoolSchema |-> FALSE, isTrueSchema |-> FALSE]
    ELSE isBoolSchemaLoop(parts, i + 1, [isBoolSchema |-> TRUE, isTrueSchema |-> parts[i].val])

isBoolSchema(parts) ==
    isBoolSchemaLoop(parts, 1, [isBoolSchema |-> FALSE, isTrueSchema |-> FALSE])

Wrote(buf) == [buf |-> buf, err |-> NoErr]

RECURSIVE marshalSchema(_, _)
RECURSIVE marshalParts(_, _, _, _)
RECURSIVE marshalValue(_, _)
RECURSIVE marshalSchemas(_, _, _, _)
RECURSIVE marshalMapSchema(_, _, _, _)

marshalSchema(ar, s) ==
    LET closed(r) == IF r.err # NoErr THEN r ELSE Wrote("{" \o r.buf \o "}")
        plain(b) == IF b.isBoolSchema
                    THEN Wrote(IF b.isTrueSchema THEN "true" ELSE "false")
                    ELSE closed(marshalParts(ar, s, 1, TRUE))
    IN  plain(isBoolSchema(ar[s]))

\* The loop over s.Parts from Part i on; first is the flag of the loop.
marshalParts(ar, s, i, first) ==
    IF i > Len(ar[s]) THEN Wrote("")
    ELSE IF ar[s][i].gen THEN marshalParts(ar, s, i + 1, first)
    ELSE LET rest(head, r) == IF r.err # NoErr THEN r ELSE Wrote(head \o r.buf)
             value(v) ==
                 IF v.err # NoErr THEN v
                 ELSE rest((IF first THEN "" ELSE ",") \o encodeString(ar[s][i].kw) \o ":"
                           \o v.buf,
                           marshalParts(ar, s, i + 1, FALSE))
         IN  value(marshalValue(ar, ar[s][i]))

\* The type switch on part.Value.
marshalValue(ar, part) ==
    LET bracket(r) == IF r.err # NoErr THEN r ELSE Wrote("[" \o r.buf \o "]")
        brace(r) == IF r.err # NoErr THEN r ELSE Wrote("{" \o r.buf \o "}")
    IN
    CASE part.at = "Bool" -> Wrote(IF part.val THEN "true" ELSE "false")
      [] part.at = "String" -> Wrote(encodeString(part.val))
      [] part.at = "Strings" -> Wrote("[" \o encodeStrings(part.val, 1) \o "]")
      [] part.at = "StringOrStrings" ->
           IF ~part.val.isList THEN Wrote(encodeString(part.val.String))
           ELSE Wrote("[" \o encodeStrings(part.val.Strings, 1) \o "]")
      [] part.at = "Int" -> Wrote(ToString(part.val))
      [] part.at = "Schema" -> marshalSchema(ar, part.val)
      [] part.at = "Schemas" -> bracket(marshalSchemas(ar, part.val, 1, TRUE))
      [] part.at = "MapSchema" ->
           brace(marshalMapSchema(ar, part.val, SortedKeys(DOMAIN part.val), 1))
      [] part.at = "SchemaOrSchemas" ->
           IF part.val.Schema # 0 THEN marshalSchema(ar, part.val.Schema)
           ELSE bracket(marshalSchemas(ar, part.val.Schemas, 1, FALSE))
      [] part.at = "Any" -> Wrote(Encode(part.val) \o "\n")
      [] OTHER -> [buf |-> "", err |-> Fatal("schema.MarshalJSON: unexpected type")]

\* A loop over schemas; commas tells whether the loop writes a comma before
\* all but the first.
marshalSchemas(ar, schemas, i, commas) ==
    IF i > Len(schemas) THEN Wrote("")
    ELSE LET rest(head, r) == IF r.err # NoErr THEN r ELSE Wrote(head \o r.buf)
             one(v) == IF v.err # NoErr THEN v
                       ELSE rest((IF commas /\ i > 1 THEN "," ELSE "") \o v.buf,
                                 marshalSchemas(ar, schemas, i + 1, commas))
         IN  one(marshalSchema(ar, schemas[i]))

marshalMapSchema(ar, m, names, i) ==
    IF i > Len(names) THEN Wrote("")
    ELSE LET rest(head, r) == IF r.err # NoErr THEN r ELSE Wrote(head \o r.buf)
             one(v) == IF v.err # NoErr THEN v
                       ELSE rest((IF i > 1 THEN "," ELSE "") \o encodeString(names[i]) \o ":"
                                 \o v.buf,
                                 marshalMapSchema(ar, m, names, i + 1))
         IN  one(marshalSchema(ar, m[names[i]]))

MarshalJSON(ar, s) == marshalSchema(ar, s)

-----------------------------------------------------------------------------
(* json.Unmarshal(data, &v) into an empty interface: a decoder of the text *)
(* that MarshalJSON writes.  Every operator returns [ok, v, i]: whether a  *)
(* value was read, the value, and the index after it.                      *)

At(str, i) == IF i > Len(str) THEN "" ELSE SubSeq(str, i, i)

Digits == {"0", "1", "2", "3", "4", "5", "6", "7", "8", "9"}

DigitVal(c) == CHOOSE d \in 0..9 : ToString(d) = c

SyntaxError(i) == [ok |-> FALSE, v |-> JNull, i |-> i]

RECURSIVE skipSpace(_, _)
skipSpace(str, i) == IF At(str, i) \in {" ", "\n"} THEN skipSpace(str, i + 1) ELSE i

\* The digits from i on, after the value n: [n, i].
RECURSIVE scanDigits(_, _, _)
scanDigits(str, i, n) ==
    IF At(str, i) \in Digits THEN scanDigits(str, i + 1, 10 * n + DigitVal(At(str, i)))
    ELSE [n |-> n, i |-> i]

\* The characters of a string literal from i on, after its opening quote:
\* [ok, s, i].
RECURSIVE scanString(_, _)
scanString(str, i) ==
    LET with(c, r) == IF r.ok THEN [r EXCEPT !.s = c \o @] ELSE r
    IN  CASE At(str, i) = "" -> [ok |-> FALSE, s |-> "", i |-> i]
          [] At(str, i) = "\"" -> [ok |-> TRUE, s |-> "", i |-> i + 1]
          [] At(str, i) = "\\" ->
               IF At(str, i + 1) \in {"\"", "\\", "/"}
               THEN with(At(str, i + 1), scanString(str, i + 2))
               ELSE [ok |-> FALSE, s |-> "", i |-> i]
          [] OTHER -> with(At(str, i), scanString(str, i + 1))

RECURSIVE decodeValue(_, _)
RECURSIVE decodeElems(_, _, _)
RECURSIVE decodeMembers(_, _, _)

decodeValue(str, at) ==
    LET string(r) == IF r.ok THEN [ok |-> TRUE, v |-> JStr(r.s), i |-> r.i] ELSE SyntaxError(r.i)
        number(sign, r) == [ok |-> TRUE, v |-> JNum(sign * r.n), i |-> r.i]
        literal(i, word, v) == IF SubSeq(str, i, i + Len(word) - 1) = word
                               THEN [ok |-> TRUE, v |-> v, i |-> i + Len(word)]
                               ELSE SyntaxError(i)
        empty(j, close, v, more) ==
            IF At(str, j) = close THEN [ok |-> TRUE, v |-> v, i |-> j + 1] ELSE more
        begins(i, c) ==
            CASE c = "{" -> empty(skipSpace(str, i + 1), "}", JObj(<<>>),
                                  decodeMembers(str, i + 1, <<>>))
              [] c = "[" -> empty(skipSpace(str, i + 1), "]", JArr(<<>>),
                                  decodeElems(str, i + 1, <<>>))
              [] c = "\"" -> string(scanString(str, i + 1))
              [] c = "t" -> literal(i, "true", JBool(TRUE))
              [] c = "f" -> literal(i, "false", JBool(FALSE))
              [] c = "n" -> literal(i, "null", JNull)
              [] c = "-" -> IF At(str, i + 1) \in Digits
                            THEN number(-1, scanDigits(str, i + 1, 0))
                            ELSE SyntaxError(i)
              [] c \in Digits -> number(1, scanDigits(str, i, 0))
              [] OTHER -> SyntaxError(i)
        from(i) == begins(i, At(str, i))
    IN  from(skipSpace(str, at))

\* The elements of an array from i on, after the elements e: a value, then
\* "," or "]".
decodeElems(str, at, e) ==
    LET after(r, j) ==
            IF ~r.ok THEN r
            ELSE IF At(str, j) = "," THEN decodeElems(str, j + 1, Append(e, r.v))
            ELSE IF At(str, j) = "]" THEN [ok |-> TRUE, v |-> JArr(Append(e, r.v)), i |-> j + 1]
            ELSE SyntaxError(j)
        elem(r) == after(r, skipSpace(str, r.i))
    IN  elem(decodeValue(str, at))

\* The members of an object from i on, after the members f: a name, ":", a
\* value, then "," or "}".
decodeMembers(str, at, f) ==
    LET after(name, r, j) ==
            IF ~r.ok THEN r
            ELSE IF At(str, j) = "," THEN decodeMembers(str, j + 1, (name :> r.v) @@ f)
            ELSE IF At(str, j) = "}"
            THEN [ok |-> TRUE, v |-> JObj((name :> r.v) @@ f), i |-> j + 1]
            ELSE SyntaxError(j)
        member(name, r) == after(name, r, skipSpace(str, r.i))
        named(k, j) ==
            IF ~k.ok \/ At(str, j) # ":" THEN SyntaxError(j)
            ELSE member(k.s, decodeValue(str, j + 1))
        key(k) == named(k, skipSpace(str, k.i))
        from(i) == IF At(str, i) # "\"" THEN SyntaxError(i) ELSE key(scanString(str, i + 1))
    IN  from(skipSpace(str, at))

\* json.Unmarshal: one value, then only white space: [ok, v].
jsonUnmarshal(str) ==
    LET whole(r) == IF r.ok /\ skipSpace(str, r.i) > Len(str)
                    THEN [ok |-> TRUE, v |-> r.v]
                    ELSE [ok |-> FALSE, v |-> JNull]
    IN  whole(decodeValue(str, 1))

-----------------------------------------------------------------------------
(* SpecMarshal: the text of a document is parsed, the schema is           *)
(* marshalled, and the text written is parsed again.  data is              *)
(* [buf, err, ar, root, again]: the text to parse, the error of            *)
(* MarshalJSON, then the arena, root and error of the second parse.        *)

MarshalLeaves ==
    {EmptyObj, JBool(TRUE), JBool(FALSE), StringSchema,
     O1("type", JArr(<<JStr("string"), JStr("null")>>)),
     O1("type", JArr(<<>>)),
     O2("maxLength", JNum(3), "required", JArr(<<JStr("a"), JStr("b")>>)),
     O1("const", O2("b", JArr(<<JNum(-12), JNull, JBool(TRUE)>>), "a", JStr("q\"\\/"))),
     O1("x-note", JStr("a/b")),
     O2("$anchor", JStr("t"), "default", JNull)}

MarshalWrappers == {"", "not", "allOf", "properties"}

MarshalWrap(w, leaf) ==
    CASE w = "" -> leaf
      [] w = "not" -> O1("not", leaf)
      [] w = "allOf" -> O1("allOf", JArr(<<leaf, EmptyObj, leaf>>))
      [] w = "properties" -> O2("properties", O2("b", leaf, "a", EmptyObj), "type", JStr("object"))

\* Documents of the 2019-09 draft: items with a schema and with an array.
ItemsDocs ==
    {O2("$schema", JStr(id), "items", items) :
        id \in {Draft201909ID, Draft201909ID \o "#"},
        items \in {StringSchema, JBool(FALSE), JArr(<<>>), JArr(<<StringSchema>>),
                   JArr(<<StringSchema, EmptyObj>>),
                   JArr(<<JBool(TRUE), StringSchema, EmptyObj>>)}}

\* Documents the parser rejects.
RejectedDocs == {JNum(1), O1("maxLength", JStr("x")), O1("$schema", JStr("http://h/self"))}

MarshalDocs ==
    {MarshalWrap(w, leaf) : w \in MarshalWrappers, leaf \in MarshalLeaves}
        \cup ItemsDocs \cup RejectedDocs

NoData == [buf |-> "", err |-> NoErr, ar |-> <<>>, root |-> 0, again |-> NoErr]

InitMarshal ==
    /\ pc = "start"
    /\ doc \in MarshalDocs
    /\ arena = <<>> /\ root = 0
    /\ data = [NoData EXCEPT !.buf = Encode(doc)]
    /\ instance = JNull
    /\ result = NoErr
    /\ vstack = <<>>
    /\ created = 0
    /\ sortIn = <<>>
    /\ sortOut = <<>>
    /\ opts = NoOpts
    /\ loads = <<>>
    /\ loader = 0
    /\ target = <<>> /\ builder = <<>> /\ gpc = <<>> /\ mu = <<>> /\ regs = <<>>

MarshalRest ==
    UNCHANGED <<doc, instance, vstack, created, sortIn, sortOut, opts, loads, loader,
                target, builder, gpc, mu, regs>>

\* s.UnmarshalJSON(data) on the text in data.buf: json.Unmarshal, then the
\* build and Resolve.  The first call fills the schema under test, the
\* second one the schema kept in data.
UnmarshalText ==
    /\ pc \in {"start", "marshalled"}
    /\ pc = "marshalled" => data.err = NoErr
    /\ \E j \in {jsonUnmarshal(data.buf)} :
          \E u \in {IF j.ok THEN UnmarshalJSON(j.v)
                    ELSE [ar |-> <<>>, root |-> 0, err |-> Fatal("invalid character"),
                          loads |-> <<>>]} :
             IF pc = "start"
             THEN /\ arena' = u.ar /\ root' = u.root /\ result' = u.err
                  /\ pc' = IF u.err = NoErr THEN "parsed" ELSE "rejected"
                  /\ UNCHANGED data
             ELSE /\ data' = [data EXCEPT !.ar = u.ar, !.root = u.root, !.again = u.err]
                  /\ pc' = "reparsed"
                  /\ UNCHANGED <<arena, root, result>>
    /\ MarshalRest

\* s.MarshalJSON().
Marshal ==
    /\ pc = "parsed"
    /\ \E m \in {MarshalJSON(arena, root)} : data' = [data EXCEPT !.buf = m.buf, !.err = m.err]
    /\ pc' = "marshalled"
    /\ UNCHANGED <<arena, root, result>>
    /\ MarshalRest

NextMarshal == UnmarshalText \/ Marshal

SpecMarshal == InitMarshal /\ [][NextMarshal]_vars

-----------------------------------------------------------------------------
(* SpecReg: goroutines that use the package-level tables: the vocabulary   *)
(* registry reg, the table formatValidators, the cache metaCache and the   *)
(* loader hook.  A call is the sequence of its lock operations and of its  *)
(* reads and writes of the table; gpc[g] is [op, i, n, arg, ret]: the      *)
(* function goroutine g is in, the step it is at, the calls it has made,   *)
(* the argument and the value last read.  regs tells, per table, whether   *)
(* the one entry the model uses is present.                                *)

Goroutines == {1, 2}

MaxCalls == 2

Step(kind, r) == [kind |-> kind, r |-> r]

Locked(r, access) == <<Step("Lock", r), Step(access, r), Step("Unlock", r)>>

\* The steps of the functions, in program order.
Program(op) ==
    CASE op = "RegisterVocabulary" -> Locked("reg", "Write")
      [] op = "LookupVocabulary" -> Locked("reg", "Read")
      [] op = "RegisterFormatValidator" -> Locked("format", "Write")
      [] op = "ValidateFormat" -> Locked("format", "Read")
      [] op = "metaCache.Load" -> Locked("meta", "Read")
      [] op = "metaCache.Store" -> Locked("meta", "Write")
      [] op = "SetLoader" -> <<Step("Read", "loader"), Step("Write", "loader")>>
      [] op = "UnmarshalJSON" -> Locked("reg", "Read") \o <<Step("Read", "loader")>>

Ops ==
    {"RegisterVocabulary", "LookupVocabulary", "RegisterFormatValidator", "ValidateFormat",
     "metaCache.Load", "metaCache.Store", "SetLoader", "UnmarshalJSON"}

\* The argument of a call: the function handed to SetLoader, nil included.
Args(op) == IF op = "SetLoader" THEN {0, RemoteLoader} ELSE {1}

Idle(n) == [op |-> "", i |-> 0, n |-> n, arg |-> 0, ret |-> 0]

InitReg ==
    /\ pc = "running"
    /\ gpc = [g \in Goroutines |-> Idle(0)]
    /\ mu = [r \in {"reg", "format", "meta"} |-> 0]
    /\ regs = [r \in {"reg", "format", "meta"} |-> 0]
    /\ loader = 0
    /\ doc = JNull /\ arena = <<>> /\ root = 0
    /\ instance = JNull
    /\ result = NoErr
    /\ vstack = <<>>
    /\ created = 0
    /\ sortIn = <<>>
    /\ sortOut = <<>>
    /\ opts = NoOpts
    /\ loads = <<>>
    /\ data = <<>> /\ target = <<>> /\ builder = <<>>

RegRest ==
    UNCHANGED <<pc, doc, arena, root, instance, result, vstack, created, sortIn, sortOut,
                opts, loads, data, target, builder>>

Running(g) == gpc[g].op # ""

Cur(g) == Program(gpc[g].op)[gpc[g].i]

\* The goroutine after its current step, having read ret: at the next step,
\* or returned.
After(g, ret) ==
    IF gpc[g].i = Len(Program(gpc[g].op)) THEN [Idle(gpc[g].n) EXCEPT !.ret = ret]
    ELSE [gpc[g] EXCEPT !.i = @ + 1, !.ret = ret]

\* A goroutine calls one of the functions.
Call(g) ==
    /\ ~Running(g)
    /\ gpc[g].n < MaxCalls
    /\ \E op \in Ops : \E arg \in Args(op) :
          gpc' = [gpc EXCEPT ![g] = [op |-> op, i |-> 1, n |-> @.n + 1, arg |-> arg, ret |-> 0]]
    /\ UNCHANGED <<mu, regs, loader>>
    /\ RegRest

\* mu.Lock(): blocks while the mutex is held.
Lock(g) ==
    /\ Running(g) /\ Cur(g).kind = "Lock"
    /\ mu[Cur(g).r] = 0
    /\ mu' = [mu EXCEPT ![Cur(g).r] = g]
    /\ gpc' = [gpc EXCEPT ![g] = After(g, gpc[g].ret)]
    /\ UNCHANGED <<regs, loader>>
    /\ RegRest

\* The deferred mu.Unlock().
Unlock(g) ==
    /\ Running(g) /\ Cur(g).kind = "Unlock"
    /\ mu' = [mu EXCEPT ![Cur(g).r] = 0]
    /\ gpc' = [gpc EXCEPT ![g] = After(g, gpc[g].ret)]
    /\ UNCHANGED <<regs, loader>>
    /\ RegRest

\* The values a read of the loader hook can give: the hook, or what a write
\* of another goroutine that is not ordered with the read stores.
LoaderReads(g) ==
    {loader} \cup {gpc[h].arg : h \in {k \in Goroutines \ {g} :
                                         Running(k) /\ Cur(k) = Step("Write", "loader")}}

\* A read of a table: r.mapping[s], formatValidators[format], the cache's
\* map, or the variable loader.
Read(g) ==
    /\ Running(g) /\ Cur(g).kind = "Read"
    /\ \E ret \in IF Cur(g).r = "loader" THEN LoaderReads(g) ELSE {regs[Cur(g).r]} :
          gpc' = [gpc EXCEPT ![g] = After(g, ret)]
    /\ UNCHANGED <<mu, regs, loader>>
    /\ RegRest

\* A write of a table.  registry.add panics on a name that is present: the
\* deferred Unlock runs and the goroutine makes no further call.
Write(g) ==
    /\ Running(g) /\ Cur(g).kind = "Write"
    /\ IF Cur(g).r = "loader"
       THEN /\ loader' = gpc[g].arg
            /\ gpc' = [gpc EXCEPT ![g] = After(g, gpc[g].ret)]
            /\ UNCHANGED <<mu, regs>>
       ELSE IF Cur(g).r = "reg" /\ regs["reg"] = 1
       THEN /\ mu' = [mu EXCEPT !["reg"] = 0]
            /\ gpc' = [gpc EXCEPT ![g] = Idle(MaxCalls)]
            /\ UNCHANGED <<regs, loader>>
       ELSE /\ regs' = [regs EXCEPT ![Cur(g).r] = 1]
            /\ gpc' = [gpc EXCEPT ![g] = After(g, gpc[g].ret)]
            /\ UNCHANGED <<mu, loader>>
    /\ RegRest

NextReg == \E g \in Goroutines : Call(g) \/ Lock(g) \/ Read(g) \/ Write(g) \/ Unlock(g)

SpecReg == InitReg /\ [][NextReg]_vars

-----------------------------------------------------------------------------
(* SpecMeta: metaschema.Load called by several goroutines.  regs is the    *)
(* map of metaCache and mu the goroutine that holds its mutex, 0 for none. *)
(* data is the heap of Schema values, data[s] telling how far              *)
(* s.UnmarshalJSON has come with s; gpc[g] is the call goroutine g is in:  *)
(* its position, the path of the URI, the Schema s of its own and what it  *)
(* has returned, [ret, err].                                               *)

MaxLoads == 4

\* The paths Load is called with: two meta-schemas of the draft, a path the
\* embedded files lack, and "" for a URI that names no meta-schema.
MetaPaths == {"schema", "meta/core", "meta/none", ""}

MetaFiles == {"schema", "meta/core"}

NoCall == [at |-> "idle", path |-> "", s |-> 0, ret |-> 0, err |-> NoErr]

InitMeta ==
    /\ pc = "running"
    /\ gpc = [g \in Goroutines |-> NoCall]
    /\ regs = <<>>
    /\ mu = 0
    /\ data = <<>>
    /\ created = 0
    /\ doc = JNull /\ arena = <<>> /\ root = 0 /\ instance = JNull /\ result = NoErr
    /\ vstack = <<>> /\ sortIn = <<>> /\ sortOut = <<>> /\ opts = NoOpts
    /\ loads = <<>> /\ loader = 0 /\ target = <<>> /\ builder = <<>>

MetaRest ==
    UNCHANGED <<pc, doc, arena, root, instance, result, vstack, sortIn, sortOut, opts,
                loads, loader, target, builder>>

\* Goroutine g moves on to the position at.
Goes(g, at) == gpc' = [gpc EXCEPT ![g].at = at]

\* Load(schemaID, prefix, metaFS, uri, ropts) is called: a URI that names
\* no meta-schema returns nil, nil at once.
CallLoad(g) ==
    /\ gpc[g].at \in {"idle", "returned"}
    /\ created < MaxLoads
    /\ created' = created + 1
    /\ \E path \in MetaPaths :
          gpc' = [gpc EXCEPT ![g] = [NoCall EXCEPT !.path = path,
                                                   !.at = IF path = "" THEN "returned"
                                                          ELSE "Load"]]
    /\ UNCHANGED <<regs, mu, data>>
    /\ MetaRest

\* cc.mu.Lock() of metaCache.Load and of metaCache.Store.
LockCache(g) ==
    /\ gpc[g].at \in {"Load", "Store"}
    /\ mu = 0
    /\ mu' = g
    /\ Goes(g, IF gpc[g].at = "Load" THEN "Load.locked" ELSE "Store.locked")
    /\ UNCHANGED <<regs, data, created>>
    /\ MetaRest

\* The rest of metaCache.Load, the deferred Unlock included: a schema that
\* is cached is returned.
LoadCached(g) ==
    /\ gpc[g].at = "Load.locked"
    /\ mu' = 0
    /\ \E sc \in {CacheLoad(regs, gpc[g].path)} :
          gpc' = [gpc EXCEPT ![g].ret = sc,
                             ![g].at = IF sc # 0 THEN "returned" ELSE "ReadFile"]
    /\ UNCHANGED <<regs, data, created>>
    /\ MetaRest

\* metaFS.ReadFile: an error for a path that has no file.  Then var s
\* schema.Schema, a new value.
ReadFile(g) ==
    /\ gpc[g].at = "ReadFile"
    /\ IF gpc[g].path \in MetaFiles
       THEN /\ data' = Append(data, "new")
            /\ gpc' = [gpc EXCEPT ![g].s = Len(data) + 1, ![g].at = "UnmarshalJSON"]
       ELSE /\ data' = data
            /\ gpc' = [gpc EXCEPT ![g].err = Fatal("can't find meta-schema URI"),
                               ![g].at = "returned"]
    /\ UNCHANGED <<regs, mu, created>>
    /\ MetaRest

\* s.UnmarshalJSON(data): the builder fills s.
ParseMeta(g) ==
    /\ gpc[g].at = "UnmarshalJSON"
    /\ data' = [data EXCEPT ![gpc[g].s] = "parsed"]
    /\ Goes(g, "Resolve")
    /\ UNCHANGED <<regs, mu, created>>
    /\ MetaRest

\* s.UnmarshalJSON(data): the resolver has run over s.
ResolveMeta(g) ==
    /\ gpc[g].at = "Resolve"
    /\ data' = [data EXCEPT ![gpc[g].s] = "resolved"]
    /\ Goes(g, "Store")
    /\ UNCHANGED <<regs, mu, created>>
    /\ MetaRest

\* The rest of metaCache.Store, the deferred Unlock included, and the
\* return of Load with what Store has returned.
StoreCached(g) ==
    /\ gpc[g].at = "Store.locked"
    /\ mu' = 0
    /\ regs' = CacheStore(regs, gpc[g].path, gpc[g].s)
    /\ gpc' = [gpc EXCEPT ![g].ret = CacheLoad(regs', gpc[g].path), ![g].at = "returned"]
    /\ UNCHANGED <<data, created>>
    /\ MetaRest

NextMeta ==
    \/ \E g \in Goroutines : CallLoad(g)
    \/ \E g \in Goroutines : LockCache(g)
    \/ \E g \in Goroutines : LoadCached(g)
    \/ \E g \in Goroutines : ReadFile(g)
    \/ \E g \in Goroutines : ParseMeta(g)
    \/ \E g \in Goroutines : ResolveMeta(g)
    \/ \E g \in Goroutines : StoreCached(g)

SpecMeta == InitMeta /\ [][NextMeta]_vars

-----------------------------------------------------------------------------
(* SpecFormat: ValidateFormat and RegisterFormatValidator called by        *)
(* several goroutines.  regs is the table formatValidators, the set of the *)
(* formats that have a validator, and mu the goroutine that holds          *)
(* formatValidatorsLock, 0 for none; sync.Mutex is not reentrant.  gpc[g]  *)
(* is the stack of the calls goroutine g is in, each [fn, format, at].     *)
(* The validator of "plain" looks at the instance; the one of "nested"     *)
(* validates the instance against a schema that has format "plain"; the    *)
(* one of "register" calls RegisterFormatValidator for "new".              *)

MaxFormatCalls == 3

Formats == {"plain", "nested", "register", "none"}

FormatCall(fn, format) == [fn |-> fn, format |-> format, at |-> "Lock"]

InitFormat ==
    /\ pc = "running"
    /\ gpc = [g \in Goroutines |-> <<>>]
    /\ regs = {"plain", "nested", "register"}
    /\ mu = 0
    /\ created = 0
    /\ doc = JNull /\ arena = <<>> /\ root = 0 /\ instance = JNull /\ result = NoErr
    /\ vstack = <<>> /\ sortIn = <<>> /\ sortOut = <<>> /\ opts = NoOpts
    /\ loads = <<>> /\ loader = 0 /\ target = <<>> /\ builder = <<>> /\ data = <<>>

FormatRest ==
    UNCHANGED <<pc, doc, arena, root, instance, result, vstack, sortIn, sortOut, opts,
                loads, loader, target, builder, data>>

InCall(g) == gpc[g] # <<>>

Innermost(g) == gpc[g][Len(gpc[g])]

\* The innermost call of g moves on to the position at.
MovesTo(g, at) == gpc' = [gpc EXCEPT ![g][Len(gpc[g])].at = at]

\* The keyword format is evaluated on goroutine g.  Without the option
\* ValidateFormat the call returns at once.
CallValidateFormat(g) ==
    /\ ~InCall(g)
    /\ created < MaxFormatCalls
    /\ created' = created + 1
    /\ \E format \in Formats, on \in BOOLEAN :
          gpc' = [gpc EXCEPT ![g] = IF on THEN <<FormatCall("ValidateFormat", format)>>
                                    ELSE <<>>]
    /\ UNCHANGED <<regs, mu>>
    /\ FormatRest

\* The program registers a validator for a format on goroutine g.
CallRegisterFormatValidator(g) ==
    /\ ~InCall(g)
    /\ created < MaxFormatCalls
    /\ created' = created + 1
    /\ \E format \in {"none", "new"} :
          gpc' = [gpc EXCEPT ![g] = <<FormatCall("RegisterFormatValidator", format)>>]
    /\ UNCHANGED <<regs, mu>>
    /\ FormatRest

\* formatValidatorsLock.Lock().
LockFormats(g) ==
    /\ InCall(g)
    /\ Innermost(g).at = "Lock"
    /\ mu = 0
    /\ mu' = g
    /\ MovesTo(g, "locked")
    /\ UNCHANGED <<regs, created>>
    /\ FormatRest

\* fv := formatValidators[string(arg)], and the return for a format that
\* has no validator.
LookupFormat(g) ==
    /\ InCall(g)
    /\ Innermost(g).fn = "ValidateFormat"
    /\ Innermost(g).at = "locked"
    /\ MovesTo(g, IF Innermost(g).format \in regs THEN "fv" ELSE "return")
    /\ UNCHANGED <<regs, mu, created>>
    /\ FormatRest

\* err := fv(instance, state): the validator runs, and calls what it calls.
RunValidator(g) ==
    /\ InCall(g)
    /\ Innermost(g).at = "fv"
    /\ gpc' = [gpc EXCEPT ![g] =
                 CASE Innermost(g).format = "nested" ->
                        Append([@ EXCEPT ![Len(@)].at = "return"],
                               FormatCall("ValidateFormat", "plain"))
                   [] Innermost(g).format = "register" ->
                        Append([@ EXCEPT ![Len(@)].at = "return"],
                               FormatCall("RegisterFormatValidator", "new"))
                   [] OTHER -> [@ EXCEPT ![Len(@)].at = "return"]]
    /\ UNCHANGED <<regs, mu, created>>
    /\ FormatRest

\* formatValidators[format] = fv of RegisterFormatValidator.
StoreFormat(g) ==
    /\ InCall(g)
    /\ Innermost(g).fn = "RegisterFormatValidator"
    /\ Innermost(g).at = "locked"
    /\ regs' = regs \cup {Innermost(g).format}
    /\ MovesTo(g, "return")
    /\ UNCHANGED <<mu, created>>
    /\ FormatRest

\* The call returns: the deferred Unlock runs.
ReturnFormat(g) ==
    /\ InCall(g)
    /\ Innermost(g).at = "return"
    /\ \A i \in 1..(Len(gpc[g]) - 1) : gpc[g][i].at = "return"
    /\ mu' = 0
    /\ gpc' = [gpc EXCEPT ![g] = SubSeq(@, 1, Len(@) - 1)]
    /\ UNCHANGED <<regs, created>>
    /\ FormatRest

FormatStep(g) ==
    \/ CallValidateFormat(g) \/ CallRegisterFormatValidator(g)
    \/ LockFormats(g) \/ LookupFormat(g)
    \/ RunValidator(g) \/ StoreFormat(g) \/ ReturnFormat(g)

NextFormat == \E g \in Goroutines : FormatStep(g)

SpecFormat == InitFormat /\ [][NextFormat]_vars

\* The scheduler runs every goroutine that can take a step.
SpecFormatFair == SpecFormat /\ \A g \in Goroutines : WF_vars(FormatStep(g))

-----------------------------------------------------------------------------
(* SpecSort: the generator run on a keyword table, then Finalize on a      *)
(* schema's Parts with the comparison routine it generated.                *)

SortNames == {"a", "b", "c"}

\* Keyword tables over SortNames, one keywordData per name.
SortTables ==
    {<<[Name |-> "a", After |-> fa], [Name |-> "b", After |-> fb], [Name |-> "c", After |-> fc]>> :
        fa \in SUBSET {"b", "c"}, fb \in SUBSET {"a", "c"}, fc \in SUBSET {"a", "b"}}

Acyclic(kws) ==
    \E ord \in [SortNames -> 1..Cardinality(SortNames)] :
        /\ \A m, n \in SortNames : m # n => ord[m] # ord[n]
        /\ \A i \in DOMAIN kws : \A y \in kws[i].After : ord[y] < ord[kws[i].Name]

SortPart(name) == [kw |-> name, gen |-> FALSE, at |-> "Bool", val |-> TRUE]

\* Parts lists in the order the builder appended them: any order of any names.
SortPartLists ==
    {s \in UNION {[1..n -> SortNames] : n \in 2..Cardinality(SortNames)} :
        \A i, j \in DOMAIN s : i # j => s[i] # s[j]}

Pinned == /\ doc = JNull /\ arena = <<>> /\ root = 0 /\ instance = JNull
          /\ result = NoErr /\ vstack = <<>> /\ created = 0
          /\ opts = NoOpts /\ loads = <<>> /\ loader = 0 /\ PinnedOthers

InitSort ==
    /\ pc = "keywords"
    /\ sortIn \in {t \in SortTables : Acyclic(t)}
    /\ sortOut = [gen |-> [found |-> FALSE, order |-> <<>>], parts |-> <<>>]
    /\ Pinned

Generate ==
    /\ pc = "keywords"
    /\ sortOut' = [sortOut EXCEPT !.gen = printKeywordsSort(sortIn)]
    /\ pc' = "generated"
    /\ UNCHANGED <<doc, arena, root, instance, result, vstack, created, sortIn, opts, loads, loader, others>>

FinalizeParts ==
    /\ pc = "generated"
    /\ \E s \in SortPartLists :
          sortOut' = [sortOut EXCEPT
                        !.parts = Finalize(sortOut.gen, [i \in DOMAIN s |-> SortPart(s[i])])]
    /\ pc' = "finalized"
    /\ UNCHANGED <<doc, arena, root, instance, result, vstack, created, sortIn, opts, loads, loader, others>>

NextSort == Generate \/ FinalizeParts

SpecSort == InitSort /\ [][NextSort]_vars

-----------------------------------------------------------------------------
(* The depth of the validation states and the end of the call, on the      *)
(* behaviours of SpecDepth.                                                *)

\* C1 as stated: every ValidationState created during one ValidateWithOpts
\* call, the root state and every state made by Child, has Depth at most
\* 1000.
C1_DepthAtMostCap ==
    /\ created <= MaxDepth
    /\ \A i \in DOMAIN vstack : vstack[i].st.Depth <= MaxDepth

\* C1 as the code has it: Child refuses on a state whose Depth exceeds 1000,
\* so every ValidationState created has Depth at most 1001, and a call that
\* created a state of Depth 1001 returns a non-validation error.
C1_DepthAtMostCapPlusOne ==
    /\ created <= MaxDepth + 1
    /\ \A i \in DOMAIN vstack : vstack[i].st.Depth <= MaxDepth + 1
    /\ pc = "done" /\ created = MaxDepth + 1 => IsFatal(result)

\* C1: a call has created a state of the greatest Depth and has returned.
C1_DeepestStateCreated == pc = "done" /\ created = MaxDepth + 1 /\ IsFatal(result)

\* C2: Validate on a schema whose reference graph is cyclic terminates for
\* every instance: the stack of running loops stays within the depth cap,
\* the call returns, and on a cycle followed without descending into the
\* instance it returns a non-validation error.
C2_CyclicValidateTerminates ==
    /\ <>(pc = "done")
    /\ [](Len(vstack) <= MaxDepth + 1)
    /\ [](pc = "done" /\ doc \in CyclicDocs => IsFatal(result))

\* C2: the call on a cyclic schema has returned, with the stack unwound.
C2_CyclicCallReturned ==
    /\ pc = "done" /\ vstack = <<>>
    /\ doc \in CyclicDocs
    /\ result = Fatal("recursion while validating schema too deep")

-----------------------------------------------------------------------------
(* The results of validation and the resolved schema, on the behaviours of *)
(* Spec.                                                                   *)

\* The JSON pointer of the keyword k under properties/p1/properties/p2/...
RECURSIVE PropertiesPointer(_)
PropertiesPointer(names) ==
    IF names = <<>> THEN ""
    ELSE "/properties/" \o EscapeToken(Head(names)) \o PropertiesPointer(Tail(names))

\* The one keyword of LeafSchema that the leaf value v fails.
FailedKeyword(v) == IF v.t = "str" THEN "minLength" ELSE "type"

\* C3: for a schema that nests properties and an instance whose value at
\* p1/p2/... fails exactly one keyword k of the innermost subschema,
\* Validate returns exactly one validation error, its keywordLocation the
\* JSON pointer "#/properties/p1/properties/p2/.../k" and its
\* instanceLocation the JSON pointer "#/p1/p2/...".
C3_NestedPropertiesLocations ==
    \A p \in NamePaths, v \in {JNum(123), JStr("x")} :
        pc = "validated" /\ doc = NestDoc(p) /\ instance = NestInst(p, v)
        => /\ IsValidationError(result)
           /\ Len(result.errs) = 1
           /\ result.errs[1].KeywordLocation
                 = "#" \o PropertiesPointer(p) \o "/" \o FailedKeyword(v)
           /\ result.errs[1].InstanceLocation = "#" \o JoinTokens(p)

\* The errors of err that report the required name as missing at the root.
RequiredErrors(err, name) ==
    {i \in DOMAIN err.errs :
        /\ err.errs[i].KeywordLocation = "#/required/" \o name
        /\ err.errs[i].InstanceLocation = "#"}

\* C4 as stated: each name listed in required that the object instance
\* lacks yields exactly one validation error with keywordLocation
\* "#/required/<name>" and instanceLocation "#", a name that is present
\* yields none.
C4_OneErrorPerMissingName ==
    \A r \in ReqLists :
        pc = "validated" /\ doc = ReqDoc(r) /\ instance.t = "obj"
        => \A name \in ReqNames :
              Cardinality(RequiredErrors(result, name))
                 = IF name \in Range(r) /\ name \notin DOMAIN instance.f THEN 1 ELSE 0

\* C4 as the code has it: each entry of the required list whose name the
\* object instance lacks yields one such validation error, so a name listed
\* twice yields two; a name that is present yields none.
C4_OneErrorPerListedEntry ==
    \A r \in ReqLists :
        pc = "validated" /\ doc = ReqDoc(r) /\ instance.t = "obj"
        => /\ result.k # "fatal"
           /\ \A name \in ReqNames :
                 Cardinality(RequiredErrors(result, name))
                    = IF name \notin DOMAIN instance.f
                      THEN Cardinality({i \in DOMAIN r : r[i] = name})
                      ELSE 0

\* C4: an instance that has one of two required names has been validated.
C4_MissingNameReported ==
    /\ pc = "validated"
    /\ doc = ReqDoc(<<"name", "id">>)
    /\ instance = O1("name", JStr("n"))
    /\ Cardinality(RequiredErrors(result, "id")) = 1

\* C5: a non-validation error raised while a nested subschema is evaluated
\* is never swallowed: the result of Validate is a non-validation error,
\* whatever validation errors the sibling keywords collect.
C5_FatalNeverSwallowed ==
    \A w \in Wrappers, f \in FatalSchemas, b \in BOOLEAN :
        pc = "validated" /\ doc = FatalDoc(w, f, b) /\ Reaches(w, instance)
        => IsFatal(result)

\* What parsing the document d and validating inst against it ends with.
Verdict(d, inst) ==
    LET u == UnmarshalJSON(d)
    IN  IF u.err # NoErr THEN [pc |-> "rejected", result |-> u.err]
        ELSE [pc |-> "validated", result |-> ValidateWithOpts(u.ar, u.root, inst, NoOpts)]

\* The document d is accepted and validates the instance as the document
\* without the added keyword does.
SameAsWithout(without) ==
    /\ pc # "rejected"
    /\ pc = "validated" => result = Verdict(without, instance).result

\* C6: a keyword the vocabulary lacks is inert: added to any node of a
\* schema, with any value, it is not rejected by the builder and does not
\* change the result of validation for any instance.
C6_UnknownKeywordsInert ==
    \A b \in UnknownBases, n \in UnknownNames, v \in UnknownValues :
        /\ doc = AddKeyword(b, n, v) => SameAsWithout(b)
        /\ doc = UnderProperty(AddKeyword(b, n, v)) => SameAsWithout(UnderProperty(b))

ResolvedRefNames == {"$$resolvedRef", "$$resolvedDynamicRef", "$$detachedDynamicRef"}

\* The targets of the resolved references of a node.
RefTargets(parts) ==
    {parts[i].val : i \in {j \in DOMAIN parts :
                              parts[j].gen /\ parts[j].kw \in ResolvedRefNames}}

\* The nodes reached from the nodes S through subschemas and resolved
\* references.
RECURSIVE Reach(_, _)
Reach(ar, S) ==
    LET T == S \cup UNION {Range(Children(ar, s)) \cup RefTargets(ar[s]) : s \in S}
    IN  IF T = S THEN S ELSE Reach(ar, T)

\* C7: after a successful Resolve every node of the resolved graph that
\* has a $ref Part, the targets of resolved references included, has
\* exactly one $$resolvedRef Part, whose target is a node of the graph.
C7_EveryRefHasOneResolvedRef ==
    pc \in {"resolved", "validated"}
    => \A s \in Reach(arena, {root}) :
          HasPart(arena[s], "$ref", FALSE)
          => /\ Cardinality({i \in DOMAIN arena[s] :
                                arena[s][i].gen /\ arena[s][i].kw = "$$resolvedRef"}) = 1
             /\ FirstPart(arena[s], "$$resolvedRef", TRUE).val \in Reach(arena, {root})

\* The base schema of node s when s lies in the subtree of node n, whose
\* base is base unless n has $id; 0 when s is not in the subtree.
RECURSIVE BaseIn(_, _, _, _)
BaseIn(ar, n, base, s) ==
    LET b == IF HasPart(ar[n], "$id", FALSE) THEN n ELSE base
        kids == Children(ar, n)
        hits == {BaseIn(ar, kids[i], b, s) : i \in DOMAIN kids} \ {0}
    IN  IF n = s THEN b
        ELSE IF hits = {} THEN 0
        ELSE CHOOSE h \in hits : TRUE

\* The nodes of the document that declare a dynamic anchor.
AnchorNodes ==
    {s \in DOMAIN arena :
        BaseIn(arena, root, root, s) # 0 /\ HasPart(arena[s], "$dynamicAnchor", FALSE)}

AnchorName(s) == FirstPart(arena[s], "$dynamicAnchor", FALSE).val

BaseParts(s) == arena[BaseIn(arena, root, root, s)]

IsAnchorPart(p, kw, s) ==
    p.gen /\ p.kw = kw /\ p.val = [anchor |-> AnchorName(s), schema |-> s]

\* The base owns the record Part of the dynamic anchor of another node.
OwnsEarlierRecord(parts, s) ==
    \E i \in DOMAIN parts :
        parts[i].gen /\ parts[i].kw = "$$recordDynamicAnchorKeyword" /\ parts[i].val.schema # s

\* C8 as stated: after Resolve, for every node with $dynamicAnchor N, the
\* base-owning node has $$recordDynamicAnchor(N) as its first Part and
\* $$clearDynamicAnchor(N) as its last Part, unless the base already owned
\* a record Part from an earlier dynamic anchor.
C8_RecordFirstClearLast ==
    pc \in {"resolved", "validated"}
    => \A s \in AnchorNodes :
          \/ OwnsEarlierRecord(BaseParts(s), s)
          \/ /\ IsAnchorPart(BaseParts(s)[1], "$$recordDynamicAnchorKeyword", s)
             /\ IsAnchorPart(BaseParts(s)[Len(BaseParts(s))], "$$clearDynamicAnchorKeyword", s)

\* C8 as the code has it: the record Part is the first Part of the base and
\* the clear Part is followed by nothing but the generated reference Parts
\* that the second pass of Resolve appends to a base with $ref or
\* $dynamicRef; or the base already owned the record Part of an earlier
\* dynamic anchor.
C8_RecordFirstClearBeforeResolvedRefs ==
    pc \in {"resolved", "validated"}
    => \A s \in AnchorNodes :
          \/ OwnsEarlierRecord(BaseParts(s), s)
          \/ /\ IsAnchorPart(BaseParts(s)[1], "$$recordDynamicAnchorKeyword", s)
             /\ \E j \in DOMAIN BaseParts(s) :
                   /\ IsAnchorPart(BaseParts(s)[j], "$$clearDynamicAnchorKeyword", s)
                   /\ \A k \in (j + 1)..Len(BaseParts(s)) :
                         BaseParts(s)[k].gen /\ BaseParts(s)[k].kw \in ResolvedRefNames

\* C8: a base that declares a dynamic anchor and has a $ref is resolved:
\* its Parts begin with the record Part and end with $$resolvedRef.
C8_BaseWithRefResolved ==
    /\ pc = "resolved"
    /\ doc = DynB(TRUE)
    /\ arena[root][1].kw = "$$recordDynamicAnchorKeyword"
    /\ arena[root][Len(arena[root])].kw = "$$resolvedRef"

-----------------------------------------------------------------------------
(* The generated comparison routine, on the behaviours of SpecSort.        *)

AfterOf(name) == (CHOOSE k \in Range(sortIn) : k.Name = name).After

PartIndex(parts, name) == CHOOSE i \in DOMAIN parts : parts[i].kw = name

\* C9: for an acyclic After relation the generated comparison routine ranks
\* every keyword of After(X) strictly before X, and after Finalize the Part
\* of such a keyword stands at a lower index than the Part of X.
C9_AfterRankedBefore ==
    /\ pc \in {"generated", "finalized"} =>
          \A x \in SortNames : \A y \in AfterOf(x) : keywordCmp(sortOut.gen, y, x) < 0
    /\ pc = "finalized" =>
          \A x \in SortNames : \A y \in AfterOf(x) :
              (\E i \in DOMAIN sortOut.parts : sortOut.parts[i].kw = x)
              /\ (\E i \in DOMAIN sortOut.parts : sortOut.parts[i].kw = y)
              => PartIndex(sortOut.parts, y) < PartIndex(sortOut.parts, x)


-----------------------------------------------------------------------------
(* Dynamic scope, on the behaviours of Spec.                               *)

\* C10: dynamic anchors are scoped outermost-first.  When B evaluates A in
\* place through $ref and both declare the dynamic anchor T, the
\* $dynamicRef "#T" inside A validates against the anchor schema of B (an
\* integer schema); when B declares no anchor T it validates against the
\* anchor schema of A (a string schema).
C10_OutermostAnchorWins ==
    pc = "validated"
    => /\ doc = DynB(TRUE) => (result = NoErr <=> instance.t = "num")
       /\ doc = DynB(TRUE) /\ result # NoErr => IsValidationError(result)
       /\ doc = DynB(FALSE) => (result = NoErr <=> instance.t = "str")
       /\ doc = DynB(FALSE) /\ result # NoErr => IsValidationError(result)

\* C10: the integer 7 has been validated against B with its override.
C10_OverrideValidated ==
    pc = "validated" /\ doc = DynB(TRUE) /\ instance = JNum(7) /\ result = NoErr

-----------------------------------------------------------------------------
(* C11 *)

\* The errors of err whose keyword location lies under unevaluatedProperties
\* of the root for the property name.
UnevaluatedErrors(err, name) ==
    {i \in DOMAIN err.errs :
        HasPrefix(err.errs[i].KeywordLocation, "#/unevaluatedProperties/" \o name)}

\* C11: unevaluatedProperties:false beside allOf:[{properties:{a}},
\* {properties:{b}}] counts a and b as evaluated when every branch passed:
\* an instance with no other property is valid, and every other property of
\* the instance gets a validation error whose keyword location lies under
\* "#/unevaluatedProperties/<name>", while a and b get none.
C11_AllOfBranchesEvaluate ==
    \A typed \in BOOLEAN :
        /\ pc = "validated" /\ doc = UnevalDoc(typed)
        /\ (typed /\ "a" \in DOMAIN instance.f => instance.f["a"].t = "str")
        => /\ result.k # "fatal"
           /\ result = NoErr <=> DOMAIN instance.f \subseteq {"a", "b"}
           /\ \A name \in DOMAIN instance.f :
                 (UnevaluatedErrors(result, name) # {}) <=> name \notin {"a", "b"}

\* C11: {a:1,b:1,c:1} has failed on c and on nothing else.
C11_OnlyOtherPropertyFails ==
    /\ pc = "validated" /\ doc = UnevalDoc(FALSE)
    /\ instance = O3("a", JNum(1), "b", JNum(1), "c", JNum(1))
    /\ UnevaluatedErrors(result, "c") = DOMAIN result.errs
    /\ result.errs # <<>>

-----------------------------------------------------------------------------
(* C12 *)

\* C12: within one Resolve the loader is called at most once for each
\* no-fragment URI, also when the loaded schema refers to itself and when
\* two remote schemas refer to each other; the resolution ends, and every
\* URI it loaded was loaded by the one call loads lists.
C12_LoaderOncePerURI ==
    pc # "parse"
    => /\ \A i, j \in DOMAIN loads : loads[i] = loads[j] => i = j
       /\ \A i \in DOMAIN loads : loads[i] = BeforeHash(loads[i])
       /\ loader = 0 => loads = <<>>
       /\ loader = RemoteLoader /\ doc = O1("$ref", JStr("http://h/m1"))
          => loads = <<"http://h/m1", "http://h/m2">> /\ pc # "rejected"

\* C12: the two schemas that refer to each other have been loaded once each
\* and an instance has been validated against them.
C12_MutualRemotesResolved ==
    /\ pc = "validated"
    /\ doc = O1("$ref", JStr("http://h/m1"))
    /\ loads = <<"http://h/m1", "http://h/m2">>
    /\ instance = O1("p", JNum(1))
    /\ IsValidationError(result)

-----------------------------------------------------------------------------
(* C13 *)

\* C13 as stated: a Validate or ValidateWithOpts call leaves the Parts of
\* every schema node, and the values they hold, as they were.
C13_ValidateLeavesSchema == [][pc = "resolved" => arena' = arena]_vars

-----------------------------------------------------------------------------
(* C16 *)

\* C16: with ApplyDefaults set and a map instance that lacks n, whose
\* subschema has the default 5: when n is not required the instance holds
\* n = 5 after the call and errors come from its other properties only;
\* when n is required the instance is as it was and the call fails with
\* the required error for n.  Without ApplyDefaults the instance is as it
\* was.
C16_DefaultUnlessRequired ==
    [][\A req \in BOOLEAN :
          /\ pc = "resolved" /\ doc = DefaultDoc(req)
          /\ instance.t = "obj" /\ "n" \notin DOMAIN instance.f
          => /\ opts.ApplyDefaults /\ ~req
                => /\ instance' = JObj(("n" :> JNum(5)) @@ instance.f)
                   /\ result' = NoErr <=> instance # O1("name", JNum(1))
                   /\ RequiredErrors(result', "n") = {}
             /\ opts.ApplyDefaults /\ req
                => /\ instance' = instance
                   /\ RequiredErrors(result', "n") # {}
             /\ ~opts.ApplyDefaults => instance' = instance]_vars

\* C16: {} has been validated with ApplyDefaults and holds n = 5.
C16_DefaultApplied ==
    /\ pc = "validated" /\ doc = DefaultDoc(FALSE) /\ opts.ApplyDefaults
    /\ instance = O1("n", JNum(5)) /\ result = NoErr
    /\ loads = <<>>

-----------------------------------------------------------------------------
(* C30 *)

\* The lock of the table is not held by a goroutine whose validator runs.
ValidatorRunsUnlocked ==
    \A g \in Goroutines :
        (\E i \in DOMAIN gpc[g] : gpc[g][i].fn = "ValidateFormat" /\ gpc[g][i].at = "fv")
        => mu # g

\* Every call of ValidateFormat returns.
FormatCallsReturn == \A g \in Goroutines : InCall(g) ~> ~InCall(g)

\* C30 as stated: format dispatch cannot deadlock.  The lock of the table
\* of format validators is not held while a registered validator runs, so
\* a validator that validates against a schema with format, or that calls
\* RegisterFormatValidator, comes to its end, and so does every call.
C30_FormatDispatchCompletes == [](ValidatorRunsUnlocked) /\ FormatCallsReturn

-----------------------------------------------------------------------------
(* C29 *)

\* The goroutines whose last call of Load has returned a schema for path.
ReturnedFor(path) ==
    {g \in Goroutines : gpc[g].at = "returned" /\ gpc[g].path = path /\ gpc[g].ret # 0}

\* The calls that have returned a schema for one path have returned the
\* same Schema, the one the cache holds, and a cached Schema is resolved.
SameSchema ==
    /\ \A path \in MetaPaths : \A g \in ReturnedFor(path) :
          gpc[g].ret = CacheLoad(regs, path)
    /\ \A path \in DOMAIN regs : data[regs[path]] = "resolved"

\* A path that is cached stays cached, with the Schema it has.
FirstStoreWins == \A path \in DOMAIN regs : CacheLoad(regs', path) = regs[path]

\* C29: in every interleaving of calls of Load, the calls that return a
\* schema for one key return the same Schema: the first Store for the key
\* wins, a later Store returns the schema stored and never replaces it,
\* and a schema is stored only once it is parsed and resolved.
C29_OneSchemaPerKey == [](SameSchema) /\ [][FirstStoreWins]_vars

\* Both goroutines have parsed the same meta-schema, and the one that
\* stored second has returned the Schema of the other.
C29_LostTheRace ==
    \E g \in Goroutines, h \in Goroutines :
        /\ g # h
        /\ gpc[g].at = "returned" /\ gpc[h].at = "returned"
        /\ gpc[g].path = gpc[h].path
        /\ gpc[g].s # 0 /\ gpc[h].s # 0
        /\ gpc[h].ret = gpc[g].s /\ gpc[g].ret = gpc[g].s

-----------------------------------------------------------------------------
(* C28 *)

\* What LookupVocabulary, for every URI, and DefaultVocabulary return on
\* the registry r.
Answers(r) ==
    [lookup |-> [v \in Vocabularies |-> lookup(r, v.Schema)], def |-> def(r)]

\* A call that fails leaves the answers of the registry as they were.
FailedCallKeepsAnswers == result' # NoErr => Answers(regs') = Answers(regs)

\* C28 as stated: after any sequence of RegisterVocabulary,
\* SetDefaultSchema and ClearVocabularies, a call that fails (a panic of
\* RegisterVocabulary, an error of SetDefaultSchema) leaves what
\* LookupVocabulary and DefaultVocabulary return unchanged.
C28_FailedCallKeepsRegistry == [][FailedCallKeepsAnswers]_vars

-----------------------------------------------------------------------------
(* C27 *)

\* C27 as stated, for one keyword kw of a node that has $id: the base URI
\* of the keyword is the URI of that $id, so the anchor T of B is found
\* under the URI of B, and the reference "#T" of B leads to the anchor T of
\* the resource of B; the document resolves and accepts the strings only.
OwnBase(d) ==
    /\ doc = d => pc # "rejected"
    /\ doc = d /\ pc = "validated" => (result = NoErr <=> instance.t = "str")

C27_AnchorOwnBase == OwnBase(BaseAnchorDoc("$anchor"))

C27_DynamicAnchorOwnBase == OwnBase(BaseAnchorDoc("$dynamicAnchor"))

C27_RefOwnBase == OwnBase(BaseRefDoc("$ref"))

C27_DynamicRefOwnBase == OwnBase(BaseRefDoc("$dynamicRef"))

\* C27: the four keywords take the URI of the $id of their own node as
\* their base, wherever $id stands among the Parts.
C27_OwnIdIsBase ==
    /\ C27_AnchorOwnBase /\ C27_DynamicAnchorOwnBase
    /\ C27_RefOwnBase /\ C27_DynamicRefOwnBase

-----------------------------------------------------------------------------
(* C26 *)

\* What the state j of vstack holds: its notes and its instance path.
Held(j) == [Notes |-> NotesOf(data, vstack[j]), InstancePath |-> PathOf(data, vstack[j])]

\* A step leaves what every state holds as it was, but for the receiver of
\* a call other than Child.
ChildFrame ==
    \A j \in DOMAIN vstack :
        (pc'.op = "Child" \/ pc'.on # j)
        => /\ NotesOf(data', vstack'[j]) = NotesOf(data, vstack[j])
           /\ PathOf(data', vstack'[j]) = PathOf(data, vstack[j])

\* The state Child has just returned, the last of vstack, against its
\* receiver.
ChildInherits ==
    pc.op = "Child"
    => LET c == vstack[Len(vstack)]
           p == vstack[pc.on]
       IN  /\ c.Root = p.Root /\ c.RootState = p.RootState /\ c.Schema = p.Schema
           /\ c.Index = p.Index /\ c.URI = p.URI /\ c.Opts = p.Opts
           /\ c.VersionData = p.VersionData
           /\ c.Depth = p.Depth + 1
           /\ Held(Len(vstack)).Notes = <<>>
           /\ Held(Len(vstack)).InstancePath = Held(pc.on).InstancePath

-----------------------------------------------------------------------------
(* C25 *)

\* The errors of err that additionalProperties reports for the property
\* name.
AdditionalErrors(err, name) ==
    {i \in DOMAIN err.errs :
        HasPrefix(err.errs[i].KeywordLocation, "#/additionalProperties/" \o name)}

\* C25: additionalProperties validates exactly the properties of the
\* instance that properties of the same node has not evaluated.  With
\* additionalProperties:false that is an error for every property but a,
\* and for a as well when the node has no properties of its own; b is
\* evaluated by the branch of allOf or the target of $ref only, whose notes
\* reach the node, and is additional all the same.
C25_AdditionalIsNotOwn ==
    pc = "validated" /\ doc \in AdditionalDocs /\ instance.t = "obj"
    => \A name \in DOMAIN instance.f :
          AdditionalErrors(result, name) # {}
              <=> ~("properties" \in DOMAIN doc.f /\ name = "a")

\* b has been evaluated by a branch of allOf, and by the target of $ref,
\* before additionalProperties has rejected it.
C25_OtherNodeEvaluated ==
    /\ pc = "validated"
    /\ doc \in {AdditionalDoc({"properties", "allOf"}),
                AdditionalDoc({"properties", "$ref", "$defs"})}
    /\ instance = O2("a", JNum(1), "b", JNum(1))
    /\ AdditionalErrors(result, "b") # {}
    /\ AdditionalErrors(result, "a") = {}

-----------------------------------------------------------------------------
(* C24 *)

\* What the validator of the Part i of the root returns for the instance,
\* called on its own.
PartAlone(i) ==
    KeywordValidate(arena, arena[root][i], <<>>,
                    [Child(RootState(root, instance, opts)).st EXCEPT !.Schema = root,
                                                                      !.Index = i]).err

\* The messages of the errors of err under the keyword kw.
MessagesAt(err, kw) ==
    {err.errs[j].Message : j \in {k \in DOMAIN err.errs :
                                     HasPrefix(err.errs[k].KeywordLocation, "#/" \o kw)}}

\* Every step of the loop is the call of the validator of the Part at the
\* index of the frame, on a state that carries that index, and moves the
\* index on by one; the loop is left only behind the last Part.
PartsStep ==
    pc = "loop"
    => \/ /\ Top.i <= Len(arena[Top.s])
          /\ pc' = "loop"
          /\ Top'.i = Top.i + 1
          /\ Top'.st.Index = Top.i
       \/ /\ Top.i > Len(arena[Top.s])
          /\ pc' = "done"

\* The error returned holds the validation errors of every Part that fails.
PartsReported ==
    pc = "done" /\ ~IsFatal(result)
    => \A i \in DOMAIN arena[root] :
          IsValidationError(PartAlone(i))
          => /\ IsValidationError(result)
             /\ {PartAlone(i).errs[j].Message : j \in DOMAIN PartAlone(i).errs}
                    \subseteq MessagesAt(result, arena[root][i].kw)

\* C24: the loop over the Parts of a node calls the validator of every
\* Part once, in increasing index order, goes on after a Part has reported
\* an error, comes to its end, and returns the validation errors of every
\* failing Part.
C24_EveryPartOnceInOrder ==
    /\ [][PartsStep]_vars
    /\ [](PartsReported)
    /\ (pc = "ready" ~> pc = "done")

\* The loop has ended on a node of which three Parts or more have failed.
C24_SeveralPartsFailed ==
    /\ pc = "done"
    /\ IsValidationError(result)
    /\ Cardinality({i \in DOMAIN arena[root] : IsValidationError(PartAlone(i))}) >= 3

-----------------------------------------------------------------------------
(* C23 *)

\* The arena as it is before the resolver has run: no node holds a Part
\* that records where a reference leads.
Unresolved(ar) ==
    LET kept(p) == ~(p.gen /\ p.kw \in {"$$resolvedRef", "$$resolvedDynamicRef",
                                        "$$detachedDynamicRef"})
    IN  [s \in DOMAIN ar |-> SelectSeq(ar[s], kept)]

\* The nodes of ar that hold $dynamicRef.
DynamicRefNodes(ar) == {s \in DOMAIN ar : HasPart(ar[s], "$dynamicRef", FALSE)}

\* C23: $dynamicRef takes the $$resolvedDynamicRef Part of its node even
\* while the dynamic scope binds its fragment (DynStatic: the string schema
\* of the static anchor decides, not the root that declares the dynamic
\* anchor T); without that Part it takes the schema the scope binds to the
\* fragment even though a $$detachedDynamicRef Part exists (DynB(TRUE): the
\* integer schema); without a binding it takes the $$detachedDynamicRef
\* Part (DynDetached: the string schema); and in a node with none of the
\* three the keyword returns a fatal error.
C23_DynamicRefPrecedence ==
    pc = "validated"
    => /\ doc = DynStatic => (result = NoErr <=> instance = O1("p", JStr("s")))
       /\ doc = DynStatic /\ result # NoErr => IsValidationError(result)
       /\ doc = DynB(TRUE) => (result = NoErr <=> instance.t = "num")
       /\ doc = DynDetached => (result = NoErr <=> instance.t = "str")
       /\ doc = DynDetached /\ result # NoErr => IsValidationError(result)
       /\ \A s \in DynamicRefNodes(arena) :
             IsFatal(validateDynamicRef(Unresolved(arena),
                                        FirstPart(arena[s], "$dynamicRef", FALSE).val,
                                        <<>>, RootState(s, instance, opts)).err)

\* The $dynamicRef of DynStatic has been evaluated, with T in scope, and the
\* instance accepted.
C23_StaticTargetInScope ==
    /\ pc = "validated" /\ doc = DynStatic /\ instance = O1("p", JStr("s"))
    /\ result = NoErr
    /\ \E s \in DynamicRefNodes(arena) : HasPart(arena[s], "$$resolvedDynamicRef", TRUE)

-----------------------------------------------------------------------------
(* C22 *)

\* The last reference token of a JSON Pointer, "" for the pointer "#".
RECURSIVE LastToken(_)
LastToken(ptr) ==
    IF ptr = "" \/ ptr = "#" THEN ""
    ELSE IF SubSeq(ptr, Len(ptr), Len(ptr)) = "/" THEN ""
    ELSE LastToken(SubSeq(ptr, 1, Len(ptr) - 1)) \o SubSeq(ptr, Len(ptr), Len(ptr))

\* The errors of err that the keyword kw reports for its sub-value tok: the
\* keywordLocation names kw and, for properties, the property.
ErrorsUnder(err, kw, tok) ==
    {i \in DOMAIN err.errs :
        HasPrefix(err.errs[i].KeywordLocation,
                  IF kw = "properties" THEN "#/properties/" \o tok \o "/type"
                  ELSE "#/" \o kw \o "/type")}

\* The documents of PathDocs with one keyword kw over string schemas.
PathDoc(kw) ==
    CASE kw = "properties"  -> O1("properties", O1("p", StringSchema))
      [] kw = "items"       -> O1("items", StringSchema)
      [] kw = "prefixItems" -> O1("prefixItems", JArr(<<StringSchema, StringSchema>>))

\* C22 for properties: the error for the property p has an
\* instanceLocation that ends with "/p".
C22_PropertyErrorEndsWithName ==
    pc = "validated" /\ doc = PathDoc("properties")
    => \A i \in ErrorsUnder(result, "properties", "p") :
           LastToken(result.errs[i].InstanceLocation) = "p"

\* C22 for items and prefixItems: the error for the element i has an
\* instanceLocation that ends with "/i".  In the instances of PathInstances
\* the element that is no string is the last one.
C22_ElementErrorEndsWithIndex ==
    pc = "validated" /\ doc \in {PathDoc("items"), PathDoc("prefixItems")}
       /\ instance.t = "arr"
    => \A i \in DOMAIN result.errs :
           LastToken(result.errs[i].InstanceLocation) = ToString(Len(instance.e) - 1)

\* C22 as stated: the keywords that descend into sub-values push the token
\* of the sub-value, so the error for a property or an element ends with
\* its token.
C22_ErrorsCarryInstancePath ==
    C22_PropertyErrorEndsWithName /\ C22_ElementErrorEndsWithIndex

-----------------------------------------------------------------------------
(* C21 *)

\* C21 as stated: then and else act on the `if` note of their own node only.
\* In a node without `if` they are never applied, whatever `if` an in-place
\* subschema of the node has, so the documents of IfLeakDocs accept every
\* instance; and in a node with `if` it is the node's own result that
\* decides, so the documents of IfOwnDocs reject exactly the strings.
C21_ThenElseOnlyOwnIf ==
    pc = "validated"
    => /\ doc \in IfLeakDocs => result = NoErr
       /\ doc \in IfOwnDocs => (result # NoErr <=> instance.t = "str")

\* The part of C21 about a node without `if`.
C21_NoIfNoThenElse ==
    pc = "validated" /\ doc \in IfLeakDocs => result = NoErr

\* The part of C21 about a node with its own `if`.
C21_OwnIfDecides ==
    pc = "validated" /\ doc \in IfOwnDocs => (result # NoErr <=> instance.t = "str")

-----------------------------------------------------------------------------
(* C20 *)

\* C20 as stated: the notes of the subschema of `not` never reach the
\* enclosing state, so with {not:{properties:{a:...}}} beside
\* unevaluatedProperties:false every property of the instance, a included,
\* is unevaluated and gets the error of unevaluatedProperties.
C20_NotDropsNotes ==
    pc = "validated" /\ doc = NotDoc
    => \A name \in DOMAIN instance.f : UnevaluatedErrors(result, name) # {}

-----------------------------------------------------------------------------
(* C19 *)

\* The index of the generated Part kw among parts, 0 when there is none.
GeneratedIndex(parts, kw) ==
    IF HasPart(parts, kw, TRUE)
    THEN CHOOSE i \in DOMAIN parts : parts[i].gen /\ parts[i].kw = kw
    ELSE 0

\* C19 as stated: in the loop over the Parts of a base schema that carries
\* the record and clear Parts of the dynamic anchor N, once the record Part
\* has run N is in the dynamic-anchor scope before every Part up to and
\* including the clear Part of this loop, whatever the Parts in between
\* evaluated, re-entries of the same base schema included.
C19_AnchorInScopeUntilOwnClear ==
    pc = "loop" /\ HasPart(arena[Top.s], "$$recordDynamicAnchorKeyword", TRUE)
    => \A i \in DOMAIN arena[Top.s] :
          /\ GeneratedIndex(arena[Top.s], "$$recordDynamicAnchorKeyword") < i
          /\ i <= GeneratedIndex(arena[Top.s], "$$clearDynamicAnchorKeyword")
          /\ i = Top.i
          => arena[Top.s][GeneratedIndex(arena[Top.s], "$$recordDynamicAnchorKeyword")]
                .val.anchor \in DOMAIN Top.st.mem.anchors

-----------------------------------------------------------------------------
(* DerefSchema on pointers that cannot be followed, on the behaviours of   *)
(* SpecDeref.                                                              *)

\* What following the tokens from token i on meets first in the node s:
\* "ok", "range" for an array index past the end, "key" for a map key that is
\* absent, "keyword" for a token naming no keyword of the node, "other" for
\* any other failure.
RECURSIVE PointerOutcome(_, _, _, _)
PointerOutcome(ar, s, toks, i) ==
    IF i > Len(toks) THEN "ok"
    ELSE
    LET at(pi, part) ==
            IF pi = 0 THEN "keyword"
            ELSE
            CASE part.at = "Schema" -> PointerOutcome(ar, part.val, toks, i + 1)
              [] part.at = "Schemas" ->
                   IF i + 1 > Len(toks) \/ Atoi(decodeToken(toks[i + 1])) < 0 THEN "other"
                   ELSE IF Atoi(decodeToken(toks[i + 1])) >= Len(part.val) THEN "range"
                   ELSE PointerOutcome(ar, part.val[Atoi(decodeToken(toks[i + 1])) + 1],
                                       toks, i + 2)
              [] part.at = "MapSchema" ->
                   IF i + 1 > Len(toks) THEN "other"
                   ELSE IF decodeToken(toks[i + 1]) \notin DOMAIN part.val THEN "key"
                   ELSE PointerOutcome(ar, part.val[decodeToken(toks[i + 1])], toks, i + 2)
              [] OTHER -> "other"
        named(pi) == at(pi, ar[s][pi])
    IN  named(PartNamed(ar[s], decodeToken(toks[i])))

Unfollowable ==
    IF target.pointer = "" THEN "ok"
    ELSE PointerOutcome(arena, root,
                        SplitSlash(SubSeq(target.pointer, 2, Len(target.pointer)), ""), 1)

\* C17: DerefSchema returns an error for an array index out of range, for a
\* missing map key and for a token naming a keyword the node does not have,
\* and the three errors differ from one another.
C17_UnfollowableIsError ==
    pc = "derefed" =>
        /\ Unfollowable = "range" => target.err = Fatal("array index out of range")
        /\ Unfollowable = "key" => target.err = Fatal("map key not present")
        /\ Unfollowable = "keyword" =>
              /\ target.err # NoErr
              /\ target.err \notin {Fatal("array index out of range"),
                                    Fatal("map key not present")}

-----------------------------------------------------------------------------
(* The Builder's tag/shape consistency, on the behaviours of SpecBuilder.  *)

\* C18: every Part added through the Builder's Add* operations holds a value
\* of exactly the shape of its keyword's ArgType; a call whose value shape
\* does not match panics and adds no Part.
C18_PartShapeIsArgType ==
    \A i \in DOMAIN builder.Parts :
        builder.Parts[i].Value.shape = builder.Parts[i].Keyword.ArgType

-----------------------------------------------------------------------------
(* Parse, marshal, parse, on the behaviours of SpecMarshal.                *)

\* The non-generated Parts of the node s, the schemas in their values
\* replaced by their own non-generated Parts.
RECURSIVE NonGenerated(_, _)
NonGenerated(ar, s) ==
    LET keep(p) == ~p.gen
        sub(n) == NonGenerated(ar, n)
        value(p) ==
            CASE p.at = "Schema" -> sub(p.val)
              [] p.at = "Schemas" -> [i \in DOMAIN p.val |-> sub(p.val[i])]
              [] p.at = "MapSchema" -> [k \in DOMAIN p.val |-> sub(p.val[k])]
              [] p.at = "SchemaOrSchemas" ->
                   [Schema |-> IF p.val.Schema = 0 THEN <<>> ELSE sub(p.val.Schema),
                    isList |-> p.val.Schema = 0,
                    Schemas |-> [i \in DOMAIN p.val.Schemas |-> sub(p.val.Schemas[i])]]
              [] OTHER -> p.val
        image(parts) == [i \in DOMAIN parts |->
                            [kw |-> parts[i].kw, at |-> parts[i].at, val |-> value(parts[i])]]
    IN  image(SelectSeq(ar[s], keep))

\* C15: for every document the parser accepts, marshalling the schema and
\* parsing the text again succeeds and gives a schema with the same
\* non-generated Parts, recursively, as the first parse.
C15_ParseMarshalParse ==
    /\ pc = "marshalled" => data.err = NoErr
    /\ pc = "reparsed" =>
          /\ data.again = NoErr
          /\ NonGenerated(data.ar, data.root) = NonGenerated(arena, root)

-----------------------------------------------------------------------------
(* The locking of the package-level tables, on the behaviours of SpecReg. *)

\* C14: every read and every write of the vocabulary registry, the format
\* table, the meta-schema cache and the loader hook is performed by a
\* goroutine that holds the mutex of that table.
C14_AccessHoldsMutex ==
    \A g \in Goroutines :
        Running(g) /\ Cur(g).kind \in {"Read", "Write"} =>
            Cur(g).r \in DOMAIN mu /\ mu[Cur(g).r] = g

=============================================================================
